---------------------------- MODULE Spec2Model ----------------------------
(***************************************************************************)
(* A model of the STK toolkit's configuration mapping and round-trip       *)
(* engine: the component type model (components/base.py, facility.py,      *)
(* satellite.py), the factory (components/factory.py), the modifiers       *)
(* (modifiers/*.py) and the exporter's normalizer                          *)
(* (exports/component_exporter.py).                                        *)
(*                                                                         *)
(* Representation.                                                         *)
(*  - A Python dict is a TLA+ function whose DOMAIN is the set of keys      *)
(*    present: `"min" in c` is "min" \in DOMAIN c, d.get(k, v) is           *)
(*    Get(d, k, v).                                                        *)
(*  - Numbers are integers.  Altitude is counted in hundredths of a km     *)
(*    (5 is 0.05 km, 100 is 1.0 km) so that Python's int() truncation is   *)
(*    observable; every other quantity is stored and returned unchanged    *)
(*    by the code and is counted in its own unit.                          *)
(*  - The backend scene is the sequence of live objects, each with a       *)
(*    unique handle id; a component or modifier refers to an object by id. *)
(*  - A backend call that can raise takes the raise from the fault the     *)
(*    action draws; "none" is the run in which every backend call works.   *)
(***************************************************************************)
EXTENDS Integers, Sequences, FiniteSets, TLC

VARIABLES
    scene,      \* live backend objects, in creation order
    nextId,     \* next handle id the backend hands out
    comps,      \* component objects (ComponentBase instances) held by callers
    created,    \* ComponentFactory._created_components: indices into comps
    modifier,   \* the modifier object a caller holds: class, _target, _interface
    result,     \* what the last operation did: op, its input, error raised, backend calls
    rt          \* the round-trip scenario: phase, records and snapshots

vars == <<scene, nextId, comps, created, modifier, result, rt>>

-----------------------------------------------------------------------------
(* Bounds of the model *)

\* longest constraints list of an input record
MaxCons == 2
\* backend objects ever allocated in one run
MaxObjects == 3
\* component objects ever constructed by callers
MaxComps == 2

-----------------------------------------------------------------------------
(* Python values *)

\* Python's None, a value no attribute takes
None == -999999

EmptyDict == [k \in {} |-> 0]

Get(d, k, dflt) == IF k \in DOMAIN d THEN d[k] ELSE dflt

\* a dict with key k dropped
Without(d, k) == [x \in DOMAIN d \ {k} |-> d[x]]

\* Python int() on a number counted in hundredths: truncation toward zero
PyInt(x) == IF x >= 0 THEN (x \div 100) * 100 ELSE -(((-x) \div 100) * 100)

\* Python float() on a number: the same number
PyFloat(x) == x

Range(s) == {s[i] : i \in DOMAIN s}


Last(s) == s[Len(s)]

Call(op, arg) == [op |-> op, arg |-> arg]

-----------------------------------------------------------------------------
(* Constraint registry and the backend's constraint objects *)

\* the access-constraint codes of FacilityComponent's constraint_type_map that
\* the model's inputs name (the map has one entry per creatable name)
constraint_type_map ==
    [ElevationAngle |-> 14, Range |-> 34, SunElevationAngle |-> 58, Lighting |-> 25]

\* the code of the line-of-sight constraint, active on every new object
LineOfSightType == 26

\* the backend's name for the constraint of a type code
ConstraintNameOf(ctype) ==
    IF ctype = LineOfSightType THEN "LineOfSight"
    ELSE CHOOSE n \in DOMAIN constraint_type_map : constraint_type_map[n] = ctype

\* the constraint types whose object answers QueryInterface(IAgAccessCnstrMinMax)
SupportsMinMax(ctype) == ctype \in {12, 14, 34, 58}

\* a constraint as the backend adds it: no bound enabled
NewConstraint(ctype) ==
    [name |-> ConstraintNameOf(ctype), ctype |-> ctype,
     enMin |-> FALSE, min |-> 0, enMax |-> FALSE, max |-> 0]

\* FindConstraint never finding the constraint
FindConstraintNever(ac, n) == 0

\* index of the first constraint of ac named n, 0 when there is none
FindConstraint(ac, n) ==
    IF \E i \in DOMAIN ac : ac[i].name = n
    THEN CHOOSE i \in DOMAIN ac : ac[i].name = n /\ \A j \in 1..(i - 1) : ac[j].name # n
    ELSE 0

-----------------------------------------------------------------------------
(* The backend scene *)

\* the object scenario.Children.New allocates for a facility
NewFacilityObject(id, name) ==
    [id |-> id, kind |-> "Facility", name |-> name,
     lat |-> 0, lon |-> 0, alt |-> 0,
     ac |-> <<NewConstraint(LineOfSightType)>>]

\* index in the scene of the live object of that kind and name, 0 when none
\* (root.GetObjectFromPath("*/Kind/name") raises in that case)
FindObject(sc, kind, name) ==
    IF \E i \in DOMAIN sc : sc[i].kind = kind /\ sc[i].name = name
    THEN CHOOSE i \in DOMAIN sc : sc[i].kind = kind /\ sc[i].name = name
    ELSE 0

\* index in the scene of the object with handle id, 0 when it was unloaded
IndexOfId(sc, id) ==
    IF \E i \in DOMAIN sc : sc[i].id = id
    THEN CHOOSE i \in DOMAIN sc : sc[i].id = id
    ELSE 0

RemoveAt(s, i) == [j \in 1..(Len(s) - 1) |-> IF j < i THEN s[j] ELSE s[j + 1]]

\* the scene with object `obj` stored in place of the one with the same id
PutObject(sc, obj) == [i \in DOMAIN sc |-> IF sc[i].id = obj.id THEN obj ELSE sc[i]]

-----------------------------------------------------------------------------
(* FacilityComponent *)

\* FacilityComponent._configure: only the position is set
ConfigureFacility(obj, kwargs, fault) ==
    LET latitude == Get(kwargs, "latitude", 0)
        longitude == Get(kwargs, "longitude", 0)
        altitude == Get(kwargs, "altitude", 0)
    IN  IF fault = "Position"
        THEN [obj |-> obj, err |-> TRUE, calls |-> <<Call("Position", "")>>]
        ELSE IF fault = "AssignGeodetic"
        THEN [obj |-> obj, err |-> TRUE,
              calls |-> <<Call("Position", ""), Call("AssignGeodetic", "")>>]
        ELSE [obj |-> [obj EXCEPT !.lat = latitude, !.lon = longitude, !.alt = altitude],
              err |-> FALSE,
              calls |-> <<Call("Position", ""), Call("AssignGeodetic", "")>>]

\* one pass of the loop body of _set_constraints_after_creation for entry c
SetOneConstraint(st, c, fault) ==
    LET target_name == Get(c, "name", "")
        found == FindConstraint(st.ac, target_name)
        searched == Append(st.calls, Call("Search", target_name))
        \* min/max written on the constraint at index i of ac1
        setBounds(ac1, i, calls1) ==
            IF ~SupportsMinMax(ac1[i].ctype) \/ fault = "MinMaxQI"
            THEN [ac |-> ac1, calls |-> calls1]
            ELSE LET a == IF "min" \in DOMAIN c
                          THEN [ac1 EXCEPT ![i].enMin = TRUE, ![i].min = c.min]
                          ELSE ac1
                     b == IF "max" \in DOMAIN c
                          THEN [a EXCEPT ![i].enMax = TRUE, ![i].max = c.max]
                          ELSE a
                 IN  [ac |-> b,
                      calls |-> calls1
                          \o (IF "min" \in DOMAIN c THEN <<Call("SetMin", target_name)>> ELSE <<>>)
                          \o (IF "max" \in DOMAIN c THEN <<Call("SetMax", target_name)>> ELSE <<>>)]
    IN  IF target_name = ""
        THEN st
        ELSE IF found # 0
        THEN setBounds(st.ac, found, searched)
        ELSE IF target_name \notin DOMAIN constraint_type_map
        THEN [ac |-> st.ac, calls |-> searched]
        ELSE IF fault = "AddConstraint"
        THEN [ac |-> st.ac, calls |-> Append(searched, Call("AddConstraint", target_name))]
        ELSE setBounds(Append(st.ac, NewConstraint(constraint_type_map[target_name])),
                       Len(st.ac) + 1,
                       Append(searched, Call("AddConstraint", target_name)))

\* the loop of _set_constraints_after_creation ending at the first entry
\* whose constraint is neither active nor registered
RECURSIVE SetConstraintsLoopStopping(_, _, _, _)
SetConstraintsLoopStopping(st, constraints, i, fault) ==
    IF i > Len(constraints)
    THEN st
    ELSE IF /\ FindConstraint(st.ac, Get(constraints[i], "name", "")) = 0
            /\ Get(constraints[i], "name", "") \notin DOMAIN constraint_type_map
    THEN st
    ELSE SetConstraintsLoopStopping(SetOneConstraint(st, constraints[i], fault),
                                    constraints, i + 1, fault)

\* the loop of _set_constraints_after_creation from entry i on
RECURSIVE SetConstraintsLoop(_, _, _, _)
SetConstraintsLoop(st, constraints, i, fault) ==
    IF i > Len(constraints)
    THEN st
    ELSE SetConstraintsLoop(SetOneConstraint(st, constraints[i], fault), constraints, i + 1, fault)

\* FacilityComponent._set_constraints_after_creation on the live object obj
SetConstraintsAfterCreation(obj, constraints, fault) ==
    LET Done(st) == [obj |-> [obj EXCEPT !.ac = st.ac], err |-> FALSE, calls |-> st.calls]
    IN  IF fault = "AccessConstraints"
        THEN [obj |-> obj, err |-> TRUE, calls |-> <<Call("AccessConstraints", "")>>]
        ELSE Done(SetConstraintsLoop([ac |-> obj.ac, calls |-> <<Call("AccessConstraints", "")>>],
                                     constraints, 1, fault))

\* FacilityComponent._get_position_info
GetPositionInfo(obj, fault) ==
    IF fault \in {"Position", "QueryPlanetodetic"}
    THEN [error |-> "err"]
    ELSE [latitude |-> obj.lat, longitude |-> obj.lon, altitude |-> obj.alt]

\* FacilityConstraintEntry reporting a min/max constraint whether or not a bound is enabled
FacilityConstraintEntryUnguarded(c) ==
    IF c.ctype = 26
    THEN <<[name |-> c.name, type |-> "LineOfSight", enabled |-> TRUE]>>
    ELSE IF ~SupportsMinMax(c.ctype)
    THEN <<>>
    ELSE <<[name |-> c.name]
           @@ (IF c.enMin THEN [min |-> c.min] ELSE EmptyDict)
           @@ (IF c.enMax THEN [max |-> c.max] ELSE EmptyDict)>>

\* FacilityConstraintEntry reporting a min/max constraint only when its name
\* is a key of constraint_type_map
FacilityConstraintEntryRegistered(c) ==
    IF c.ctype = 26
    THEN <<[name |-> c.name, type |-> "LineOfSight", enabled |-> TRUE]>>
    ELSE IF ~SupportsMinMax(c.ctype) \/ c.name \notin DOMAIN constraint_type_map
    THEN <<>>
    ELSE IF c.enMin \/ c.enMax
    THEN <<[name |-> c.name]
           @@ (IF c.enMin THEN [min |-> c.min] ELSE EmptyDict)
           @@ (IF c.enMax THEN [max |-> c.max] ELSE EmptyDict)>>
    ELSE <<>>

\* the entry _get_constraints_info reports for one constraint, as a list of 0 or 1 dicts
FacilityConstraintEntry(c) ==
    IF c.ctype = 26
    THEN <<[name |-> c.name, type |-> "LineOfSight", enabled |-> TRUE]>>
    ELSE IF ~SupportsMinMax(c.ctype)
    THEN <<>>
    ELSE IF c.enMin \/ c.enMax
    THEN <<[name |-> c.name]
           @@ (IF c.enMin THEN [min |-> c.min] ELSE EmptyDict)
           @@ (IF c.enMax THEN [max |-> c.max] ELSE EmptyDict)>>
    ELSE <<>>

RECURSIVE FacilityConstraintsFrom(_, _)
FacilityConstraintsFrom(ac, i) ==
    IF i > Len(ac) THEN <<>>
    ELSE FacilityConstraintEntry(ac[i]) \o FacilityConstraintsFrom(ac, i + 1)

\* FacilityComponent._get_constraints_info
GetFacilityConstraintsInfo(obj, fault) ==
    IF fault = "AccessConstraints" THEN <<>> ELSE FacilityConstraintsFrom(obj.ac, 1)

\* FacilityComponent.get_info on a bound component
GetFacilityInfo(obj, fault) ==
    [name |-> obj.name,
     position |-> GetPositionInfo(obj, fault),
     constraints |-> GetFacilityConstraintsInfo(obj, fault)]

-----------------------------------------------------------------------------
(* SatelliteComponent *)

\* PropagatorType
HPOP == 0
J2_PERTURBATION == 1
J4_PERTURBATION == 2
SGP4 == 3
SPK == 4
TWO_BODY == 5

\* A Python string that the code takes apart is a sequence of tokens, with
\* "(" and " " tokens of their own; PropagatorType.NAMES in that form
PropagatorNames(prop_type) ==
    CASE prop_type = 0 -> <<"HPOP", " ", "(", "High", " ", "Precision", ")">>
      [] prop_type = 1 -> <<"J2Perturbation">>
      [] prop_type = 2 -> <<"J4Perturbation">>
      [] prop_type = 3 -> <<"SGP4">>
      [] prop_type = 4 -> <<"SPK">>
      [] prop_type = 5 -> <<"TwoBody">>
      [] OTHER -> <<"Unknown", " ", "(", "n", ")">>

\* prop_map.get(prop_str, J2_PERTURBATION) of SatelliteComponent.from_dict
PropMap(prop_str) ==
    CASE prop_str = <<"HPOP">> -> HPOP
      [] prop_str = <<"J2Perturbation">> -> J2_PERTURBATION
      [] prop_str = <<"J4Perturbation">> -> J4_PERTURBATION
      [] prop_str = <<"SGP4">> -> SGP4
      [] prop_str = <<"SPK">> -> SPK
      [] prop_str = <<"TwoBody">> -> TWO_BODY
      [] OTHER -> J2_PERTURBATION

\* the object scenario.Children.New allocates for a satellite: the backend's
\* own propagator and initial state, before any configuration
NewSatelliteObject(id, name) ==
    [id |-> id, kind |-> "Satellite", name |-> name,
     prop |-> 5, step |-> 60,
     sma |-> 6678, ecc |-> 0, inc |-> 28, aop |-> 0, raan |-> 0, ta |-> 0,
     ac |-> <<NewConstraint(LineOfSightType)>>]

\* the backend calls of _configure_j2_orbit / _configure_two_body_orbit, in order
ConfigureOrbitCalls ==
    <<"Propagator", "SetStep", "InitialState", "ConvertTo", "CoordinateSystemType",
      "SizeShapeType", "SemiMajorAxis", "Eccentricity", "Inclination", "ArgOfPerigee",
      "AscNodeType", "RAAN", "LocationType", "TrueAnomaly", "Assign", "Propagate">>

\* position of call name f in the call list cs, 0 when it is not one of them
CallIndex(cs, f) ==
    IF \E i \in DOMAIN cs : cs[i] = f THEN CHOOSE i \in DOMAIN cs : cs[i] = f ELSE 0

\* the calls issued when the call named by fault raises: all of them up to it
IssuedCalls(cs, fault) ==
    LET k == CallIndex(cs, fault)
    IN  [i \in 1..(IF k = 0 THEN Len(cs) ELSE k) |-> Call(cs[i], "")]

\* whether call c completed (it was reached and did not raise)
Completed(cs, fault, c) ==
    LET k == CallIndex(cs, fault) IN k = 0 \/ CallIndex(cs, c) < k

\* _configure_j2_orbit and _configure_two_body_orbit: the step goes to the
\* propagator at once, the elements to a classical copy that Assign commits
ConfigureOrbit(obj, kwargs, fault) ==
    LET cs == ConfigureOrbitCalls
        withStep == IF Completed(cs, fault, "SetStep")
                    THEN [obj EXCEPT !.step = Get(kwargs, "step", 60)]
                    ELSE obj
        committed == IF Completed(cs, fault, "Assign")
                     THEN [withStep EXCEPT
                              !.sma = Get(kwargs, "semi_major_axis", 7000),
                              !.ecc = Get(kwargs, "eccentricity", 0),
                              !.inc = Get(kwargs, "inclination", 0),
                              !.aop = Get(kwargs, "arg_of_perigee", 0),
                              !.raan = Get(kwargs, "raan", 0),
                              !.ta = Get(kwargs, "true_anomaly", 0)]
                     ELSE withStep
    IN  [obj |-> committed, err |-> CallIndex(cs, fault) # 0, calls |-> IssuedCalls(cs, fault)]

\* ConfigureSatellite configuring the orbit whatever the propagator kind
ConfigureSatelliteAnyKind(obj, kwargs, fault) ==
    LET propagator == Get(kwargs, "propagator", J2_PERTURBATION)
        first == <<Call("SetPropagatorType", "")>>
        Orbit(r) == [obj |-> r.obj, err |-> r.err, calls |-> first \o r.calls]
    IN  IF fault = "SetPropagatorType"
        THEN [obj |-> obj, err |-> TRUE, calls |-> first]
        ELSE Orbit(ConfigureOrbit([obj EXCEPT !.prop = propagator], kwargs, fault))

\* SatelliteComponent._configure
ConfigureSatellite(obj, kwargs, fault) ==
    LET propagator == Get(kwargs, "propagator", J2_PERTURBATION)
        first == <<Call("SetPropagatorType", "")>>
        Orbit(r) == [obj |-> r.obj, err |-> r.err, calls |-> first \o r.calls]
    IN  IF fault = "SetPropagatorType"
        THEN [obj |-> obj, err |-> TRUE, calls |-> first]
        ELSE IF propagator = J2_PERTURBATION \/ propagator = TWO_BODY
        THEN Orbit(ConfigureOrbit([obj EXCEPT !.prop = propagator], kwargs, fault))
        ELSE [obj |-> [obj EXCEPT !.prop = propagator], err |-> FALSE, calls |-> first]

\* SatelliteComponent._get_propagator_info
GetPropagatorInfo(obj) ==
    [type |-> PropagatorNames(obj.prop), type_id |-> obj.prop]

\* SatelliteComponent._get_orbit_info: only the J2 propagator is read
GetOrbitInfo(obj, fault) ==
    IF obj.prop = J2_PERTURBATION
    THEN IF fault = "Propagator"
         THEN [error |-> "err"]
         ELSE IF fault \in {"InitialState", "ConvertTo"}
         THEN [step |-> obj.step, error |-> "err"]
         ELSE [step |-> obj.step,
               semi_major_axis |-> obj.sma,
               eccentricity |-> obj.ecc,
               inclination |-> obj.inc,
               arg_of_perigee |-> obj.aop,
               raan |-> IF fault = "RAAN" THEN None ELSE obj.raan,
               true_anomaly |-> IF fault = "TrueAnomaly" THEN None ELSE obj.ta]
    ELSE EmptyDict

\* the entry SatelliteComponent._get_constraints_info reports for one constraint
SatelliteConstraintEntry(c) ==
    IF ~SupportsMinMax(c.ctype)
    THEN <<>>
    ELSE IF c.enMin \/ c.enMax
    THEN <<[name |-> c.name]
           @@ (IF c.enMin THEN [min |-> c.min] ELSE EmptyDict)
           @@ (IF c.enMax THEN [max |-> c.max] ELSE EmptyDict)>>
    ELSE <<>>

RECURSIVE SatelliteConstraintsFrom(_, _)
SatelliteConstraintsFrom(ac, i) ==
    IF i > Len(ac) THEN <<>>
    ELSE SatelliteConstraintEntry(ac[i]) \o SatelliteConstraintsFrom(ac, i + 1)

\* SatelliteComponent._get_constraints_info
GetSatelliteConstraintsInfo(obj, fault) ==
    IF fault = "AccessConstraints" THEN <<>> ELSE SatelliteConstraintsFrom(obj.ac, 1)

\* SatelliteComponent.get_info on a bound component
GetSatelliteInfo(obj, fault) ==
    [name |-> obj.name,
     propagator |-> GetPropagatorInfo(obj),
     orbit |-> GetOrbitInfo(obj, fault),
     constraints |-> GetSatelliteConstraintsInfo(obj, fault)]

-----------------------------------------------------------------------------
(* ComponentBase *)

\* a component object: _name, its kind, _stk_object and _interface (0 is None,
\* otherwise the handle id of the backend object referred to)
Component(kind, name) == [kind |-> kind, name |-> name, stk_object |-> 0, interface |-> 0]

NewObject(kind, id, name) ==
    IF kind = "Facility" THEN NewFacilityObject(id, name) ELSE NewSatelliteObject(id, name)

\* the _configure of the component's class
Configure(obj, kwargs, fault) ==
    IF obj.kind = "Facility"
    THEN ConfigureFacility(obj, kwargs, fault)
    ELSE ConfigureSatellite(obj, kwargs, fault)

\* NewRaises of a backend that accepts a second object of the same name
NewRaisesFaultOnly(sc, kind, name, fault) == fault = "New"

\* scenario.Children.New(type, name): the backend refuses a second live object
\* of the same class and name
NewRaises(sc, kind, name, fault) ==
    fault = "New" \/ FindObject(sc, kind, name) # 0

\* ComponentBase.create
ComponentCreate(sc, nid, comp, kwargs, fault) ==
    LET first == <<Call("New", comp.name), Call("QueryInterface", "")>>
        Configured(sc1, r) ==
            [scene |-> PutObject(sc1, r.obj), nextId |-> nid + 1,
             comp |-> [comp EXCEPT !.stk_object = nid, !.interface = nid],
             err |-> IF r.err THEN "STKComponentError" ELSE "",
             calls |-> first \o r.calls]
        Allocated(obj) ==
            IF fault = "QueryInterface"
            THEN [scene |-> Append(sc, obj), nextId |-> nid + 1,
                  comp |-> [comp EXCEPT !.stk_object = nid],
                  err |-> "STKComponentError", calls |-> first]
            ELSE Configured(Append(sc, obj), Configure(obj, kwargs, fault))
    IN  IF NewRaises(sc, comp.kind, comp.name, fault)
        THEN [scene |-> sc, nextId |-> nid, comp |-> comp, err |-> "STKComponentError",
              calls |-> <<Call("New", comp.name)>>]
        ELSE Allocated(NewObject(comp.kind, nid, comp.name))

\* ComponentBase.load_from_existing
ComponentLoad(sc, comp, fault) ==
    LET first == <<Call("GetObjectFromPath", comp.name)>>
        Found(id) ==
            IF fault = "QueryInterface"
            THEN [comp |-> [comp EXCEPT !.stk_object = id], err |-> "STKComponentError",
                  calls |-> Append(first, Call("QueryInterface", ""))]
            ELSE [comp |-> [comp EXCEPT !.stk_object = id, !.interface = id], err |-> "",
                  calls |-> Append(first, Call("QueryInterface", ""))]
    IN  IF FindObject(sc, comp.kind, comp.name) = 0 \/ fault = "GetObjectFromPath"
        THEN [comp |-> comp, err |-> "STKComponentError", calls |-> first]
        ELSE Found(sc[FindObject(sc, comp.kind, comp.name)].id)

\* ComponentDelete without the test of _stk_object: Unload is called on
\* whatever the component holds
ComponentDeleteUnguarded(sc, comp, fault) ==
    IF IndexOfId(sc, comp.stk_object) = 0 \/ fault = "Unload"
    THEN [scene |-> sc, comp |-> comp, err |-> "STKComponentError",
          calls |-> <<Call("Unload", comp.name)>>]
    ELSE [scene |-> RemoveAt(sc, IndexOfId(sc, comp.stk_object)),
          comp |-> [comp EXCEPT !.stk_object = 0, !.interface = 0],
          err |-> "", calls |-> <<Call("Unload", comp.name)>>]

\* ComponentBase.delete; Unload raises on a handle whose object is gone
ComponentDelete(sc, comp, fault) ==
    IF comp.stk_object = 0
    THEN [scene |-> sc, comp |-> comp, err |-> "", calls |-> <<>>]
    ELSE IF IndexOfId(sc, comp.stk_object) = 0 \/ fault = "Unload"
    THEN [scene |-> sc, comp |-> comp, err |-> "STKComponentError",
          calls |-> <<Call("Unload", comp.name)>>]
    ELSE [scene |-> RemoveAt(sc, IndexOfId(sc, comp.stk_object)),
          comp |-> [comp EXCEPT !.stk_object = 0, !.interface = 0],
          err |-> "", calls |-> <<Call("Unload", comp.name)>>]

\* whether the component's handle still names a live object
Dangling(sc, comp) == comp.interface # 0 /\ IndexOfId(sc, comp.interface) = 0

\* get_info raises only from the satellite's unguarded PropagatorType reads
GetInfoRaises(sc, comp, fault) ==
    /\ comp.interface # 0
    /\ comp.kind = "Satellite"
    /\ (fault = "PropagatorType" \/ Dangling(sc, comp))

\* get_info of the component's class; an unbound component reports not_loaded,
\* a read through a handle whose object is gone fails like any failed read
GetInfo(sc, comp, fault) ==
    IF comp.interface = 0
    THEN [name |-> comp.name, status |-> "not_loaded"]
    ELSE IF Dangling(sc, comp)
    THEN [name |-> comp.name, position |-> [error |-> "err"], constraints |-> <<>>]
    ELSE IF comp.kind = "Facility"
    THEN GetFacilityInfo(sc[IndexOfId(sc, comp.interface)], fault)
    ELSE GetSatelliteInfo(sc[IndexOfId(sc, comp.interface)], fault)

\* ComponentBase.to_dict
ToDict(sc, comp, fault) ==
    [type |-> comp.kind, name |-> comp.name] @@ Without(GetInfo(sc, comp, fault), "name")

\* SatelliteComponent.exists / FacilityComponent.exists
Exists(sc, kind, name) == FindObject(sc, kind, name) # 0

\* SatelliteComponent.delete_by_name / FacilityComponent.delete_by_name
DeleteByName(sc, kind, name, fault) ==
    IF FindObject(sc, kind, name) = 0 \/ fault = "Unload"
    THEN sc
    ELSE RemoveAt(sc, FindObject(sc, kind, name))

-----------------------------------------------------------------------------
(* from_dict and ComponentFactory *)

\* ComponentFactory._type_name_map; "" when the tag is not registered
TypeNameMap(type_str) ==
    CASE type_str \in {"Satellite", "satellite"} -> "Satellite"
      [] type_str \in {"Facility", "facility", "GroundStation", "ground_station"} -> "Facility"
      [] OTHER -> ""

\* the keyword arguments FacilityComponent.from_dict passes to create
FacilityKwargs(config) ==
    LET position == Get(config, "position", EmptyDict)
    IN  [latitude |-> Get(position, "latitude", 0),
         longitude |-> Get(position, "longitude", 0),
         altitude |-> Get(position, "altitude", 0)]

\* the keyword arguments SatelliteComponent.from_dict passes to create
SatelliteKwargs(config) ==
    LET orbit == Get(config, "orbit", EmptyDict)
    IN  [propagator |-> PropMap(Get(config, "propagator", <<"J2Perturbation">>)),
         semi_major_axis |-> Get(orbit, "semi_major_axis", 7000),
         eccentricity |-> Get(orbit, "eccentricity", 0),
         inclination |-> Get(orbit, "inclination", 0),
         raan |-> Get(orbit, "raan", 0),
         arg_of_perigee |-> Get(orbit, "arg_of_perigee", 0),
         true_anomaly |-> Get(orbit, "true_anomaly", 0),
         step |-> Get(config, "step", 60)]

\* FromDict without the test of the name: the component is created under
\* whatever config.get("name") returns
FromDictNoNameCheck(sc, nid, kind, config, fault) ==
    LET constraints == Get(config, "constraints", <<>>)
        Constrained(r, q) ==
            [scene |-> PutObject(r.scene, q.obj), nextId |-> r.nextId, comp |-> r.comp,
             err |-> IF q.err THEN "STKComponentError" ELSE "",
             calls |-> r.calls \o q.calls]
        Created(r) ==
            IF r.err # "" \/ kind # "Facility" \/ constraints = <<>>
            THEN r
            ELSE Constrained(r, SetConstraintsAfterCreation(
                                    r.scene[IndexOfId(r.scene, r.comp.interface)],
                                    constraints, fault))
    IN  Created(ComponentCreate(sc, nid, Component(kind, Get(config, "name", "")),
                                IF kind = "Facility" THEN FacilityKwargs(config)
                                ELSE SatelliteKwargs(config),
                                fault))

\* FacilityComponent.from_dict / SatelliteComponent.from_dict for a config of
\* that kind: the component made, the error raised and the scene left behind
FromDict(sc, nid, kind, config, fault) ==
    LET constraints == Get(config, "constraints", <<>>)
        Constrained(r, q) ==
            [scene |-> PutObject(r.scene, q.obj), nextId |-> r.nextId, comp |-> r.comp,
             err |-> IF q.err THEN "STKComponentError" ELSE "",
             calls |-> r.calls \o q.calls]
        Created(r) ==
            IF r.err # "" \/ kind # "Facility" \/ constraints = <<>>
            THEN r
            ELSE Constrained(r, SetConstraintsAfterCreation(
                                    r.scene[IndexOfId(r.scene, r.comp.interface)],
                                    constraints, fault))
    IN  IF Get(config, "name", "") = ""
        THEN [scene |-> sc, nextId |-> nid, comp |-> Component(kind, ""),
              err |-> "missing_name", calls |-> <<>>]
        ELSE Created(ComponentCreate(sc, nid, Component(kind, config.name),
                                     IF kind = "Facility" THEN FacilityKwargs(config)
                                     ELSE SatelliteKwargs(config),
                                     fault))

\* ComponentFactory.create up to the append: every failure is an
\* STKComponentError; err tells which raise it was
FactoryCreate(sc, nid, config, fault) ==
    LET type_str == Get(config, "type", "")
    IN  IF type_str = ""
        THEN [scene |-> sc, nextId |-> nid, comp |-> Component("", ""),
              err |-> "missing_type", calls |-> <<>>]
        ELSE IF TypeNameMap(type_str) = ""
        THEN [scene |-> sc, nextId |-> nid, comp |-> Component("", ""),
              err |-> "unknown_type", calls |-> <<>>]
        ELSE FromDict(sc, nid, TypeNameMap(type_str), config, fault)

\* CreateManyLoop with create putting each new component at the head of the
\* tracked collection
RECURSIVE CreateManyLoopPrepending(_, _, _)
CreateManyLoopPrepending(st, configs, i) ==
    LET Step(r) ==
            IF r.err # ""
            THEN [st EXCEPT !.scene = r.scene, !.nextId = r.nextId, !.err = r.err,
                            !.errAt = i, !.calls = st.calls \o r.calls]
            ELSE CreateManyLoopPrepending(
                    [st EXCEPT !.scene = r.scene, !.nextId = r.nextId,
                               !.comps = Append(st.comps, r.comp),
                               !.created = <<Len(st.comps) + 1>> \o st.created,
                               !.made = Append(st.made, i),
                               !.calls = st.calls \o r.calls],
                    configs, i + 1)
    IN  IF i > Len(configs)
        THEN st
        ELSE Step(FactoryCreate(st.scene, st.nextId, configs[i], "none"))

\* ComponentFactory.create_many from item i on: the first create that raises
\* ends the loop, the exception leaving create_many
RECURSIVE CreateManyLoop(_, _, _)
CreateManyLoop(st, configs, i) ==
    LET Step(r) ==
            IF r.err # ""
            THEN [st EXCEPT !.scene = r.scene, !.nextId = r.nextId, !.err = r.err,
                            !.errAt = i, !.calls = st.calls \o r.calls]
            ELSE CreateManyLoop(
                    [st EXCEPT !.scene = r.scene, !.nextId = r.nextId,
                               !.comps = Append(st.comps, r.comp),
                               !.created = Append(st.created, Len(st.comps) + 1),
                               !.made = Append(st.made, i),
                               !.calls = st.calls \o r.calls],
                    configs, i + 1)
    IN  IF i > Len(configs)
        THEN st
        ELSE Step(FactoryCreate(st.scene, st.nextId, configs[i], "none"))

\* ComponentFactory.create_many
CreateMany(sc, nid, cs, cr, configs) ==
    CreateManyLoop([scene |-> sc, nextId |-> nid, comps |-> cs, created |-> cr,
                    err |-> "", errAt |-> 0, made |-> <<>>, calls |-> <<>>],
                   configs, 1)

\* the loop of delete_all_created without its try: the first delete that
\* raises ends it
RECURSIVE DeleteAllLoopUnguarded(_, _, _, _)
DeleteAllLoopUnguarded(st, cr, faults, i) ==
    LET Step(r) ==
            IF r.err # ""
            THEN [st EXCEPT !.calls = st.calls \o r.calls]
            ELSE DeleteAllLoopUnguarded(
                    [scene |-> r.scene, comps |-> [st.comps EXCEPT ![cr[i]] = r.comp],
                     calls |-> st.calls \o r.calls],
                    cr, faults, i + 1)
    IN  IF i > Len(cr)
        THEN st
        ELSE Step(ComponentDelete(st.scene, st.comps[cr[i]], faults[i]))

\* the loop of ComponentFactory.delete_all_created from tracked component i
\* on: a delete that raises is passed over
RECURSIVE DeleteAllLoop(_, _, _, _)
DeleteAllLoop(st, cr, faults, i) ==
    LET Step(r) ==
            DeleteAllLoop(
                [scene |-> r.scene, comps |-> [st.comps EXCEPT ![cr[i]] = r.comp],
                 calls |-> st.calls \o r.calls],
                cr, faults, i + 1)
    IN  IF i > Len(cr)
        THEN st
        ELSE Step(ComponentDelete(st.scene, st.comps[cr[i]], faults[i]))

\* ComponentFactory.delete_all_created; faults[i] is what goes wrong in the
\* delete of tracked component i
DeleteAllCreated(sc, cs, cr, faults) ==
    DeleteAllLoop([scene |-> sc, comps |-> cs, calls |-> <<>>], cr, faults, 1)

\* str.lower() on the type tags in use
Lower(t) ==
    CASE t = "Satellite" -> "satellite"
      [] t = "Facility" -> "facility"
      [] t = "GroundStation" -> "groundstation"
      [] OTHER -> t

\* _prepare_components of the batch creation script from item i on, for the
\* component class type_name: what is left of the scene and the ready list
RECURSIVE PrepareLoop(_, _, _, _, _, _, _)
PrepareLoop(sc, ready, type_name, components, delete_existing, fault, i) ==
    IF i > Len(components)
    THEN [scene |-> sc, ready |-> ready]
    ELSE IF Lower(Get(components[i], "type", "")) # Lower(type_name)
    THEN PrepareLoop(sc, Append(ready, components[i]), type_name, components,
                     delete_existing, fault, i + 1)
    ELSE IF Get(components[i], "name", "") = ""
    THEN PrepareLoop(sc, ready, type_name, components, delete_existing, fault, i + 1)
    ELSE IF ~Exists(sc, type_name, components[i].name)
    THEN PrepareLoop(sc, Append(ready, components[i]), type_name, components,
                     delete_existing, fault, i + 1)
    ELSE IF delete_existing
    THEN PrepareLoop(DeleteByName(sc, type_name, components[i].name, fault),
                     Append(ready, components[i]), type_name, components,
                     delete_existing, fault, i + 1)
    ELSE PrepareLoop(sc, ready, type_name, components, delete_existing, fault, i + 1)

PrepareComponents(sc, type_name, components, delete_existing, fault) ==
    PrepareLoop(sc, <<>>, type_name, components, delete_existing, fault, 1)

-----------------------------------------------------------------------------
(* Modifiers *)

\* a modifier object: its class, _target and _interface (0 is None)
Modifier(kind) == [kind |-> kind, target |-> 0, interface |-> 0]

\* FacilityModifier.load / SatelliteModifier.load: _target is bound before the
\* interface is queried, so a failing query leaves _interface as it was
ModifierLoad(sc, m, name, fault) ==
    LET first == <<Call("GetObjectFromPath", name)>>
        Found(id) ==
            IF fault = "QueryInterface"
            THEN [mod |-> [m EXCEPT !.target = id], err |-> "STKModifyError",
                  calls |-> Append(first, Call("QueryInterface", ""))]
            ELSE [mod |-> [m EXCEPT !.target = id, !.interface = id], err |-> "",
                  calls |-> Append(first, Call("QueryInterface", ""))]
    IN  IF FindObject(sc, m.kind, name) = 0 \/ fault = "GetObjectFromPath"
        THEN [mod |-> m, err |-> "STKModifyError", calls |-> first]
        ELSE Found(sc[FindObject(sc, m.kind, name)].id)

\* index in the scene of the object behind the modifier's _interface, 0 when
\* _interface is None or its object was unloaded
ModTarget(sc, m) == IF m.interface = 0 THEN 0 ELSE IndexOfId(sc, m.interface)

\* the outcome of one stage of apply; err is "" or the exception raised, the
\* STKModifyError of _ensure_loaded being told apart as "not_loaded"
Stage(sc, err, calls) == [scene |-> sc, err |-> err, calls |-> calls]

\* stage q run after stage r
Chain(r, q) == Stage(q.scene, q.err, r.calls \o q.calls)

\* FacilityModifier.set_position; None is an argument not given. A failed
\* read of the current position makes the current coordinates 0.0; when the
\* Position property itself raised there is nothing to assign to, and
\* the call fails
SetPosition(sc, m, latitude, longitude, altitude, fault) ==
    LET Write(obj, cur, calls) ==
            IF fault = "AssignGeodetic"
            THEN Stage(sc, "STKModifyError", Append(calls, Call("AssignGeodetic", "")))
            ELSE Stage(PutObject(sc, [obj EXCEPT
                          !.lat = IF latitude # None THEN latitude ELSE cur.lat,
                          !.lon = IF longitude # None THEN longitude ELSE cur.lon,
                          !.alt = IF altitude # None THEN altitude ELSE cur.alt]),
                       "", Append(calls, Call("AssignGeodetic", "")))
        Read(obj) ==
            IF fault = "QueryPlanetodetic"
            THEN Write(obj, [lat |-> 0, lon |-> 0, alt |-> 0],
                       <<Call("Position", ""), Call("QueryPlanetodetic", "")>>)
            ELSE Write(obj, [lat |-> obj.lat, lon |-> obj.lon, alt |-> obj.alt],
                       <<Call("Position", ""), Call("QueryPlanetodetic", "")>>)
    IN  IF m.target = 0
        THEN Stage(sc, "not_loaded", <<>>)
        ELSE IF ModTarget(sc, m) = 0
        THEN Stage(sc, "STKModifyError", <<>>)
        ELSE IF fault = "Position"
        THEN Stage(sc, "STKModifyError", <<Call("Position", "")>>)
        ELSE Read(sc[ModTarget(sc, m)])

\* FacilityModifier._apply_position_changes
ApplyPositionChanges(sc, m, position_params, fault) ==
    SetPosition(sc, m,
                Get(position_params, "latitude", None),
                Get(position_params, "longitude", None),
                Get(position_params, "altitude", None),
                fault)

\* WriteBounds taking no notice of disable_min and disable_max
WriteBoundsIgnoringDisable(ac, i, c) ==
    LET Max(a) ==
            IF "max" \in DOMAIN c
            THEN [a EXCEPT ![i].enMax = TRUE, ![i].max = c.max]
            ELSE a
    IN  Max(IF "min" \in DOMAIN c
            THEN [ac EXCEPT ![i].enMin = TRUE, ![i].min = c.min]
            ELSE ac)

\* the min/max writes both modifiers make on the constraint at index i
WriteBounds(ac, i, c) ==
    LET Max(a) ==
            IF "max" \in DOMAIN c
            THEN [a EXCEPT ![i].enMax = TRUE, ![i].max = c.max]
            ELSE IF Get(c, "disable_max", FALSE)
            THEN [a EXCEPT ![i].enMax = FALSE]
            ELSE a
    IN  Max(IF "min" \in DOMAIN c
            THEN [ac EXCEPT ![i].enMin = TRUE, ![i].min = c.min]
            ELSE IF Get(c, "disable_min", FALSE)
            THEN [ac EXCEPT ![i].enMin = FALSE]
            ELSE ac)

\* whether GetActiveConstraint(name) or the MinMax interface query raises
BoundsUnreachable(ac, name, fault) ==
    \/ FindConstraint(ac, name) = 0
    \/ fault \in {"GetActiveConstraint", "MinMaxQI"}
    \/ ~SupportsMinMax(ac[FindConstraint(ac, name)].ctype)

\* the loop of FacilityModifier._apply_constraint_changes from entry i on: an
\* entry whose constraint cannot be reached is skipped
RECURSIVE FacilityConstraintChangesLoop(_, _, _, _)
FacilityConstraintChangesLoop(ac, constraints, i, fault) ==
    IF i > Len(constraints)
    THEN ac
    ELSE IF Get(constraints[i], "name", "") = ""
            \/ BoundsUnreachable(ac, constraints[i].name, fault)
    THEN FacilityConstraintChangesLoop(ac, constraints, i + 1, fault)
    ELSE FacilityConstraintChangesLoop(
            WriteBounds(ac, FindConstraint(ac, constraints[i].name), constraints[i]),
            constraints, i + 1, fault)

\* FacilityModifier._apply_constraint_changes
ApplyFacilityConstraintChanges(sc, m, constraints, fault) ==
    LET Done(obj) ==
            Stage(PutObject(sc, [obj EXCEPT
                      !.ac = FacilityConstraintChangesLoop(obj.ac, constraints, 1, fault)]),
                  "", <<Call("AccessConstraints", "")>>)
    IN  IF ModTarget(sc, m) = 0 \/ fault = "AccessConstraints"
        THEN Stage(sc, "STKModifyError", <<Call("AccessConstraints", "")>>)
        ELSE Done(sc[ModTarget(sc, m)])

\* FacilityModifier.apply
FacilityApply(sc, m, changes, fault) ==
    LET Cons(r) ==
            IF r.err # "" \/ "constraints" \notin DOMAIN changes
            THEN r
            ELSE Chain(r, ApplyFacilityConstraintChanges(r.scene, m, changes.constraints, fault))
    IN  IF m.target = 0
        THEN Stage(sc, "not_loaded", <<>>)
        ELSE Cons(IF "position" \in DOMAIN changes
                  THEN ApplyPositionChanges(sc, m, changes.position, fault)
                  ELSE Stage(sc, "", <<>>))

\* PatchedOrbit writing the defaults of a new orbit for the elements the
\* patch leaves out
PatchedOrbitFromDefaults(obj, params) ==
    [obj EXCEPT !.sma = Get(params, "semi_major_axis", 7000),
                !.ecc = Get(params, "eccentricity", 0),
                !.inc = Get(params, "inclination", 0),
                !.aop = Get(params, "arg_of_perigee", 0),
                !.raan = Get(params, "raan", 0),
                !.ta = Get(params, "true_anomaly", 0)]

\* the element writes on the classical copy: the object with the patch's
\* elements in place of its own
PatchedOrbit(obj, params) ==
    [obj EXCEPT !.sma = Get(params, "semi_major_axis", obj.sma),
                !.ecc = Get(params, "eccentricity", obj.ecc),
                !.inc = Get(params, "inclination", obj.inc),
                !.aop = Get(params, "arg_of_perigee", obj.aop),
                !.raan = Get(params, "raan", obj.raan),
                !.ta = Get(params, "true_anomaly", obj.ta)]

\* the backend calls of _modify_j2_orbit / _modify_two_body_orbit for a patch
ModifyOrbitCalls(params) ==
    <<"Propagator", "InitialState", "ConvertTo">>
    \o (IF "semi_major_axis" \in DOMAIN params \/ "eccentricity" \in DOMAIN params
        THEN <<"SizeShapeQI">> ELSE <<>>)
    \o (IF "semi_major_axis" \in DOMAIN params THEN <<"SemiMajorAxis">> ELSE <<>>)
    \o (IF "eccentricity" \in DOMAIN params THEN <<"Eccentricity">> ELSE <<>>)
    \o (IF "inclination" \in DOMAIN params THEN <<"Inclination">> ELSE <<>>)
    \o (IF "arg_of_perigee" \in DOMAIN params THEN <<"ArgOfPerigee">> ELSE <<>>)
    \o (IF "raan" \in DOMAIN params THEN <<"RAAN">> ELSE <<>>)
    \o (IF "true_anomaly" \in DOMAIN params THEN <<"TrueAnomaly">> ELSE <<>>)
    \o <<"Assign", "Propagate">>

\* _modify_j2_orbit and _modify_two_body_orbit: the patch goes to a classical
\* copy of the initial state that Assign commits; any failure is an
\* STKModifyError
ModifyOrbit(sc, obj, params, fault) ==
    Stage(IF Completed(ModifyOrbitCalls(params), fault, "Assign")
          THEN PutObject(sc, PatchedOrbit(obj, params))
          ELSE sc,
          IF CallIndex(ModifyOrbitCalls(params), fault) # 0 THEN "STKModifyError" ELSE "",
          IssuedCalls(ModifyOrbitCalls(params), fault))

\* SatelliteModifier._apply_orbit_changes: the propagator type is read
\* outside any try block
ApplyOrbitChanges(sc, m, orbit_params, fault) ==
    LET Typed(obj) ==
            IF obj.prop = J2_PERTURBATION \/ obj.prop = TWO_BODY
            THEN Chain(Stage(sc, "", <<Call("PropagatorType", "")>>),
                       ModifyOrbit(sc, obj, orbit_params, fault))
            ELSE Stage(sc, "STKModifyError", <<Call("PropagatorType", "")>>)
    IN  IF m.interface = 0
        THEN Stage(sc, "AttributeError", <<>>)
        ELSE IF ModTarget(sc, m) = 0 \/ fault = "PropagatorType"
        THEN Stage(sc, "Exception", <<Call("PropagatorType", "")>>)
        ELSE Typed(sc[ModTarget(sc, m)])

\* SatelliteModifier._apply_propagator_changes: only a step is applied, and
\* only to a J2 or two-body propagator
ApplyPropagatorChanges(sc, m, prop_params, fault) ==
    LET Typed(obj) ==
            IF obj.prop # J2_PERTURBATION /\ obj.prop # TWO_BODY
            THEN Stage(sc, "", <<Call("PropagatorType", "")>>)
            ELSE IF fault \in {"Propagator", "SetStep"}
            THEN Stage(sc, "STKModifyError",
                       <<Call("PropagatorType", "")>> \o IssuedCalls(<<"Propagator", "SetStep">>, fault))
            ELSE Stage(PutObject(sc, [obj EXCEPT !.step = prop_params.step]),
                       IF fault = "Propagate" THEN "STKModifyError" ELSE "",
                       <<Call("PropagatorType", ""), Call("Propagator", ""),
                         Call("SetStep", ""), Call("Propagate", "")>>)
    IN  IF "step" \notin DOMAIN prop_params
        THEN Stage(sc, "", <<>>)
        ELSE IF m.interface = 0
        THEN Stage(sc, "AttributeError", <<>>)
        ELSE IF ModTarget(sc, m) = 0 \/ fault = "PropagatorType"
        THEN Stage(sc, "Exception", <<Call("PropagatorType", "")>>)
        ELSE Typed(sc[ModTarget(sc, m)])

\* the loop of SatelliteModifier._apply_constraint_changes from entry i on: the
\* first entry whose constraint cannot be reached raises out of the loop
RECURSIVE SatelliteConstraintChangesLoop(_, _, _, _)
SatelliteConstraintChangesLoop(ac, constraints, i, fault) ==
    IF i > Len(constraints)
    THEN [ac |-> ac, err |-> ""]
    ELSE IF Get(constraints[i], "name", "") = ""
    THEN SatelliteConstraintChangesLoop(ac, constraints, i + 1, fault)
    ELSE IF BoundsUnreachable(ac, constraints[i].name, fault)
    THEN [ac |-> ac, err |-> "STKModifyError"]
    ELSE SatelliteConstraintChangesLoop(
            WriteBounds(ac, FindConstraint(ac, constraints[i].name), constraints[i]),
            constraints, i + 1, fault)

\* SatelliteModifier._apply_constraint_changes
ApplySatelliteConstraintChanges(sc, m, constraints, fault) ==
    LET Looped(obj, st) ==
            Stage(PutObject(sc, [obj EXCEPT !.ac = st.ac]), st.err,
                  <<Call("AccessConstraints", "")>>)
        Done(obj) == Looped(obj, SatelliteConstraintChangesLoop(obj.ac, constraints, 1, fault))
    IN  IF ModTarget(sc, m) = 0 \/ fault = "AccessConstraints"
        THEN Stage(sc, "STKModifyError", <<Call("AccessConstraints", "")>>)
        ELSE Done(sc[ModTarget(sc, m)])

\* SatelliteModifier.apply: orbit, then propagator, then constraints
SatelliteApply(sc, m, changes, fault) ==
    LET Cons(r) ==
            IF r.err # "" \/ "constraints" \notin DOMAIN changes
            THEN r
            ELSE Chain(r, ApplySatelliteConstraintChanges(r.scene, m, changes.constraints, fault))
        Prop(r) ==
            IF r.err # "" \/ "propagator" \notin DOMAIN changes
            THEN r
            ELSE Chain(r, ApplyPropagatorChanges(r.scene, m, changes.propagator, fault))
    IN  IF m.target = 0
        THEN Stage(sc, "not_loaded", <<>>)
        ELSE Cons(Prop(IF "orbit" \in DOMAIN changes
                       THEN ApplyOrbitChanges(sc, m, changes.orbit, fault)
                       ELSE Stage(sc, "", <<>>)))

\* apply of the modifier's class
ModifierApply(sc, m, changes, fault) ==
    IF m.kind = "Facility"
    THEN FacilityApply(sc, m, changes, fault)
    ELSE SatelliteApply(sc, m, changes, fault)

\* _build_nested_dict keeping only the last key of the path
BuildNestedDictFlat(path, value) == Last(path) :> value

\* ModifierBase._build_nested_dict; the dotted path is the sequence of its keys
RECURSIVE BuildNestedDict(_, _)
BuildNestedDict(path, value) ==
    IF Len(path) = 1
    THEN Head(path) :> value
    ELSE Head(path) :> BuildNestedDict(Tail(path), value)

\* ModifierBase.set
ModifierSet(sc, m, property_path, value, fault) ==
    ModifierApply(sc, m, BuildNestedDict(property_path, value), fault)

-----------------------------------------------------------------------------
(* ComponentExporter._normalize_component_dict *)

\* s.split("(")[0].strip() on a tokenised string
RECURSIVE BeforeParen(_)
BeforeParen(s) ==
    IF s = <<>> \/ Head(s) = "(" THEN <<>> ELSE <<Head(s)>> \o BeforeParen(Tail(s))

RECURSIVE StripRight(_)
StripRight(s) ==
    IF s # <<>> /\ Last(s) = " " THEN StripRight(SubSeq(s, 1, Len(s) - 1)) ELSE s

RECURSIVE StripLeft(_)
StripLeft(s) == IF s # <<>> /\ Head(s) = " " THEN StripLeft(Tail(s)) ELSE s

\* PropagatorTag keeping the described name as it is, decoration included
PropagatorTagKeepDecoration(prop_type) == prop_type

PropagatorTag(prop_type) ==
    IF "(" \in Range(prop_type) THEN StripLeft(StripRight(BeforeParen(prop_type))) ELSE prop_type

\* NormalizedOrbitKeys forgetting the true anomaly
NormalizedOrbitKeysNoAnomaly(orbit_info) ==
    {k \in {"semi_major_axis", "eccentricity", "inclination", "arg_of_perigee"} :
        k \in DOMAIN orbit_info}
    \cup {k \in {"raan"} : k \in DOMAIN orbit_info /\ orbit_info[k] # None}

\* the keys of orbit_info copied to the normalized orbit
NormalizedOrbitKeys(orbit_info) ==
    {k \in {"semi_major_axis", "eccentricity", "inclination", "arg_of_perigee"} :
        k \in DOMAIN orbit_info}
    \cup {k \in {"raan", "true_anomaly"} : k \in DOMAIN orbit_info /\ orbit_info[k] # None}

NormalizeSatellite(comp_dict) ==
    LET info == Get(comp_dict, "propagator", EmptyDict)
        orbit_info == Get(comp_dict, "orbit", EmptyDict)
        orbit == IF "error" \notin DOMAIN orbit_info
                 THEN [k \in NormalizedOrbitKeys(orbit_info) |-> orbit_info[k]]
                 ELSE EmptyDict
    IN  (IF DOMAIN info # {}
         THEN [propagator |-> PropagatorTag(Get(info, "type", <<"J2Perturbation">>))]
         ELSE EmptyDict)
        @@ (IF "step" \in DOMAIN orbit_info
            THEN [step |-> IF orbit_info.step # None THEN PyFloat(orbit_info.step) ELSE 60]
            ELSE EmptyDict)
        @@ (IF DOMAIN orbit # {} THEN [orbit |-> orbit] ELSE EmptyDict)

\* NormalizeConstraint without the line-of-sight filter
NormalizeConstraintKeepAll(c) ==
    <<[name |-> Get(c, "name", "")]
      @@ (IF "min" \in DOMAIN c THEN [min |-> c.min] ELSE EmptyDict)
      @@ (IF "max" \in DOMAIN c THEN [max |-> c.max] ELSE EmptyDict)>>

\* the normalized entry of one described constraint, as a list of 0 or 1 dicts
NormalizeConstraint(c) ==
    IF Get(c, "type", "") # "LineOfSight"
    THEN LET constraint == [name |-> Get(c, "name", "")]
                 @@ (IF "min" \in DOMAIN c THEN [min |-> c.min] ELSE EmptyDict)
                 @@ (IF "max" \in DOMAIN c THEN [max |-> c.max] ELSE EmptyDict)
         IN  IF DOMAIN constraint # {} THEN <<constraint>> ELSE <<>>
    ELSE <<>>

RECURSIVE NormalizeConstraints(_, _)
NormalizeConstraints(constraints, i) ==
    IF i > Len(constraints) THEN <<>>
    ELSE NormalizeConstraint(constraints[i]) \o NormalizeConstraints(constraints, i + 1)

\* NormalizeFacility coercing every altitude with int()
NormalizeFacilityIntAltitude(comp_dict) ==
    LET position_info == Get(comp_dict, "position", EmptyDict)
        alt == Get(position_info, "altitude", 0)
        constraints == Get(comp_dict, "constraints", <<>>)
        normalized_constraints == NormalizeConstraints(constraints, 1)
    IN  (IF DOMAIN position_info # {} /\ "error" \notin DOMAIN position_info
         THEN [position |->
                  [latitude |-> Get(position_info, "latitude", 0),
                   longitude |-> Get(position_info, "longitude", 0),
                   altitude |-> PyInt(alt)]]
         ELSE EmptyDict)
        @@ (IF normalized_constraints # <<>>
            THEN [constraints |-> normalized_constraints]
            ELSE EmptyDict)

\* the facility branch of _normalize_component_dict
NormalizeFacility(comp_dict) ==
    LET position_info == Get(comp_dict, "position", EmptyDict)
        alt == Get(position_info, "altitude", 0)
        constraints == Get(comp_dict, "constraints", <<>>)
        normalized_constraints == NormalizeConstraints(constraints, 1)
    IN  (IF DOMAIN position_info # {} /\ "error" \notin DOMAIN position_info
         THEN [position |->
                  [latitude |-> Get(position_info, "latitude", 0),
                   longitude |-> Get(position_info, "longitude", 0),
                   altitude |-> IF alt = PyInt(alt) THEN PyInt(alt) ELSE alt]]
         ELSE EmptyDict)
        @@ (IF normalized_constraints # <<>>
            THEN [constraints |-> normalized_constraints]
            ELSE EmptyDict)

NormalizeComponentDict(comp_dict, comp_type) ==
    [type |-> Get(comp_dict, "type", comp_type), name |-> Get(comp_dict, "name", "")]
    @@ (IF comp_type = "Satellite" THEN NormalizeSatellite(comp_dict)
        ELSE IF comp_type = "Facility" THEN NormalizeFacility(comp_dict)
        ELSE EmptyDict)

-----------------------------------------------------------------------------
(* What an observer reads off a live object *)

\* the enabled min/max constraints of an object, the line of sight left out
EnabledConstraints(obj) ==
    {[name |-> c.name]
        @@ (IF c.enMin THEN [min |-> c.min] ELSE EmptyDict)
        @@ (IF c.enMax THEN [max |-> c.max] ELSE EmptyDict) :
     c \in {x \in Range(obj.ac) : x.ctype # LineOfSightType /\ (x.enMin \/ x.enMax)}}

\* the managed attributes of a live object
LiveAttrs(obj) ==
    IF obj.kind = "Facility"
    THEN [kind |-> obj.kind, latitude |-> obj.lat, longitude |-> obj.lon,
          altitude |-> obj.alt, constraints |-> EnabledConstraints(obj)]
    ELSE [kind |-> obj.kind, propagator |-> obj.prop, step |-> obj.step,
          semi_major_axis |-> obj.sma, eccentricity |-> obj.ecc,
          inclination |-> obj.inc, raan |-> obj.raan,
          arg_of_perigee |-> obj.aop, true_anomaly |-> obj.ta]

Result(op, err, calls) == [op |-> op, err |-> err, calls |-> calls]

-----------------------------------------------------------------------------
(* The round trip: create -> describe -> normalize -> delete -> re-create *)

\* all sequences over S of length at most n
SeqsUpTo(S, n) == UNION {[1..k -> S] : k \in 0..n}

\* all dicts whose keys are a subset of DOMAIN d, with d's values
SubDicts(d) == {[k \in K |-> d[k]] : K \in SUBSET DOMAIN d}

ConstraintInputs ==
    {[name |-> "ElevationAngle", min |-> 10],
     [name |-> "ElevationAngle", max |-> 80],
     [name |-> "SunElevationAngle", min |-> -90, max |-> 0],
     [name |-> "Range"],
     [name |-> "Lighting", min |-> 1],
     [name |-> "Bogus", max |-> 7]}

PositionInputs ==
    {[latitude |-> 40, longitude |-> 116, altitude |-> 5],
     [latitude |-> -33, longitude |-> 151, altitude |-> 100],
     [latitude |-> 40, longitude |-> 116, altitude |-> -150],
     [latitude |-> 40, longitude |-> 116]}

FacilityRecords ==
    {[type |-> t, name |-> "Beijing"] @@ p @@ c :
        t \in {"Facility", "ground_station"},
        p \in {EmptyDict} \cup {[position |-> x] : x \in PositionInputs},
        c \in {EmptyDict} \cup {[constraints |-> x] : x \in SeqsUpTo(ConstraintInputs, MaxCons) \ {<<>>}}}

\* the record of the concrete scenario
BeijingRecord ==
    [type |-> "Facility", name |-> "Beijing",
     position |-> [latitude |-> 40, longitude |-> 116, altitude |-> 5],
     constraints |-> <<[name |-> "ElevationAngle", min |-> 10]>>]

OrbitInput ==
    [semi_major_axis |-> 7200, eccentricity |-> 1, inclination |-> 98,
     raan |-> 45, arg_of_perigee |-> 30, true_anomaly |-> 120]

SatelliteRecords ==
    {[type |-> "Satellite", name |-> "Sat1"] @@ p @@ o @@ st :
        p \in {EmptyDict} \cup
              {[propagator |-> <<x>>] :
                  x \in {"HPOP", "J2Perturbation", "J4Perturbation", "SGP4", "SPK", "TwoBody"}},
        o \in {EmptyDict} \cup {[orbit |-> x] : x \in SubDicts(OrbitInput)},
        st \in {EmptyDict, [step |-> 30]}}

\* the backend steps that may fail while the constraints of a new facility
\* are applied
RTCreateFaults(R) ==
    IF "constraints" \in DOMAIN R THEN {"none", "AddConstraint", "MinMaxQI"} ELSE {"none"}

\* the backend reads that may fail while a component is described
DescribeFaults == {"none", "QueryPlanetodetic", "AccessConstraints", "ConvertTo", "RAAN"}

RTInit ==
    /\ scene = <<>>
    /\ nextId = 1
    /\ comps = <<>>
    /\ created = <<>>
    /\ modifier = Modifier("Facility")
    /\ result = Result("init", "", <<>>)
    /\ \E R \in FacilityRecords \cup SatelliteRecords :
          rt = [pc |-> "start", R |-> R, fault |-> "none",
                desc |-> EmptyDict, norm |-> EmptyDict, live |-> EmptyDict]

\* factory.create(R)
RTCreate ==
    LET Done(r) ==
            /\ scene' = r.scene
            /\ nextId' = r.nextId
            /\ comps' = IF r.err = "" THEN Append(comps, r.comp) ELSE comps
            /\ created' = IF r.err = "" THEN Append(created, Len(comps) + 1) ELSE created
            /\ result' = Result("create", r.err, r.calls)
            /\ rt' = [rt EXCEPT !.pc = IF r.err = "" THEN "created" ELSE "failed"]
    IN  /\ rt.pc = "start"
        /\ Done(FactoryCreate(scene, nextId, rt.R, "none"))
        /\ UNCHANGED modifier

\* the exporter loads the live object, describes it (to_dict) and normalizes
\* the description; the live attributes at that moment are kept for comparison
RTExport ==
    LET Described(c, fault, d) ==
            /\ rt' = [rt EXCEPT !.pc = "exported", !.fault = fault, !.desc = d,
                                !.norm = NormalizeComponentDict(d, c.kind),
                                !.live = LiveAttrs(scene[IndexOfId(scene, c.stk_object)])]
            /\ result' = Result("export", "", <<>>)
        Loaded(c) == \E fault \in DescribeFaults : Described(c, fault, ToDict(scene, c, fault))
    IN  /\ rt.pc = "created"
        /\ Loaded(ComponentLoad(scene, Component(comps[1].kind, comps[1].name), "none").comp)
        /\ UNCHANGED <<scene, nextId, comps, created, modifier>>

\* component.delete()
RTDelete ==
    LET Done(r) ==
            /\ scene' = r.scene
            /\ comps' = [comps EXCEPT ![1] = r.comp]
            /\ result' = Result("delete", r.err, r.calls)
            /\ rt' = [rt EXCEPT !.pc = "deleted"]
    IN  /\ rt.pc = "exported"
        /\ Done(ComponentDelete(scene, comps[1], "none"))
        /\ UNCHANGED <<nextId, created, modifier>>

\* factory.create(R'), R' the normalized record
RTRecreate ==
    LET Done(r) ==
            /\ scene' = r.scene
            /\ nextId' = r.nextId
            /\ comps' = IF r.err = "" THEN Append(comps, r.comp) ELSE comps
            /\ created' = IF r.err = "" THEN Append(created, Len(comps) + 1) ELSE created
            /\ result' = Result("recreate", r.err, r.calls)
            /\ rt' = [rt EXCEPT !.pc = IF r.err = "" THEN "recreated" ELSE "refailed"]
    IN  /\ rt.pc = "deleted"
        /\ Done(FactoryCreate(scene, nextId, rt.norm, "none"))
        /\ UNCHANGED modifier

RTNext == RTCreate \/ RTExport \/ RTDelete \/ RTRecreate

SpecRT == RTInit /\ [][RTNext]_vars

-----------------------------------------------------------------------------
(* Describing a facility of a scenario that was not built through the toolkit *)

\* the constraints such a facility may carry besides the line of sight: one
\* the registry names, one min/max constraint whose name (and code, 12) the
\* registry does not hold, and one without min/max bounds
BackendConstraints ==
    {[name |-> n[1], ctype |-> n[2], enMin |-> a, min |-> IF a THEN 10 ELSE 0,
      enMax |-> b, max |-> IF b THEN 80 ELSE 0] :
        n \in {<<"ElevationAngle", 14>>, <<"DopplerConeAngle", 12>>}, a \in BOOLEAN, b \in BOOLEAN}
    \cup {NewConstraint(25)}

DescribeInit ==
    /\ \E cs \in SeqsUpTo(BackendConstraints, MaxCons) :
          /\ \A i, j \in DOMAIN cs : cs[i].name = cs[j].name => i = j
          /\ scene = <<[NewFacilityObject(1, "A") EXCEPT
                           !.lat = 40, !.lon = 116, !.alt = 5,
                           !.ac = <<NewConstraint(LineOfSightType)>> \o cs]>>
    /\ nextId = 2
    /\ comps = <<>>
    /\ created = <<>>
    /\ modifier = Modifier("Facility")
    /\ result = Result("init", "", <<>>)
    /\ rt = [pc |-> "start", R |-> [type |-> "Facility", name |-> "A"], fault |-> "none",
             desc |-> EmptyDict, norm |-> EmptyDict, live |-> EmptyDict]

\* the exporter's steps on an existing object: load it by name, describe it
\* (to_dict), normalize the description
DescribeExisting(fault) ==
    LET Described(c, d) ==
            /\ comps' = <<c>>
            /\ rt' = [rt EXCEPT !.pc = "exported", !.fault = fault, !.desc = d,
                                !.norm = NormalizeComponentDict(d, c.kind),
                                !.live = LiveAttrs(scene[IndexOfId(scene, c.stk_object)])]
            /\ result' = Result("export", "", <<>>)
        Loaded(c) == Described(c, ToDict(scene, c, fault))
    IN  /\ rt.pc = "start"
        /\ Loaded(ComponentLoad(scene, Component("Facility", "A"), "none").comp)
        /\ UNCHANGED <<scene, nextId, created, modifier>>

\* describe, then delete the object and create it again from the record
DescribeNext ==
    \/ \E fault \in DescribeFaults : DescribeExisting(fault)
    \/ RTDelete
    \/ RTRecreate

SpecDescribe == DescribeInit /\ [][DescribeNext]_vars

-----------------------------------------------------------------------------
(* Two callers applying constraints to one live facility, call by call *)

\* the constraint lists the two callers apply
RaceLists ==
    {<<>>,
     <<[name |-> "ElevationAngle", min |-> 10]>>,
     <<[name |-> "ElevationAngle", max |-> 80]>>,
     <<[name |-> "ElevationAngle", min |-> 20, max |-> 70]>>,
     <<[name |-> "ElevationAngle", min |-> 10], [name |-> "ElevationAngle", max |-> 80]>>,
     <<[name |-> "Lighting", min |-> 1], [name |-> "Bogus", max |-> 7]>>}

\* the local state of one call of _set_constraints_after_creation: the list,
\* the loop position, the point reached in the loop body, found_constraint
\* (an index of ac, 0 for None), the backend calls issued and the names whose
\* add raised
Frame(constraints, fault) ==
    [constraints |-> constraints, fault |-> fault, i |-> 1,
     pc |-> IF constraints = <<>> THEN "done" ELSE "search",
     found |-> 0, calls |-> <<>>, raised |-> <<>>]

\* continue: the loop goes on with the next entry
NextEntry(f) ==
    [f EXCEPT !.i = f.i + 1,
              !.pc = IF f.i + 1 > Len(f.constraints) THEN "done" ELSE "search",
              !.found = 0]

\* the first write of the loop body due from stage `from` on for entry c
NextWrite(f, c, from) ==
    IF from = "qi" /\ "min" \in DOMAIN c
    THEN [f EXCEPT !.pc = "EnableMin"]
    ELSE IF from \in {"qi", "Min"} /\ "max" \in DOMAIN c
    THEN [f EXCEPT !.pc = "EnableMax"]
    ELSE NextEntry(f)

\* one facility, two component objects bound to it, a call in progress on each
RaceInit ==
    /\ scene = <<NewFacilityObject(1, "A")>>
    /\ nextId = 2
    /\ comps = <<[Component("Facility", "A") EXCEPT !.stk_object = 1, !.interface = 1],
                 [Component("Facility", "A") EXCEPT !.stk_object = 1, !.interface = 1]>>
    /\ created = <<>>
    /\ modifier = Modifier("Facility")
    /\ result = Result("init", "", <<>>)
    /\ \E l1 \in RaceLists, l2 \in RaceLists :
       \E f1 \in {"none", "AddConstraint", "MinMaxQI"}, f2 \in {"none", "AddConstraint"} :
          /\ l2 = <<>> => f2 = "none"
          /\ rt = [pc |-> "race", before |-> <<NewConstraint(LineOfSightType)>>,
                   frames |-> <<Frame(l1, f1), Frame(l2, f2)>>]

\* caller k searches ac for the name of its entry and looks the name up
RaceSearch(k) ==
    LET f == rt.frames[k]
        target_name == Get(f.constraints[f.i], "name", "")
        found == FindConstraint(scene[1].ac, target_name)
        searched == [f EXCEPT !.calls = Append(f.calls, Call("Search", target_name))]
    IN  /\ f.pc = "search"
        /\ rt' = [rt EXCEPT !.frames[k] =
                     IF target_name = "" THEN NextEntry(f)
                     ELSE IF found # 0 THEN [searched EXCEPT !.pc = "qi", !.found = found]
                     ELSE IF target_name \notin DOMAIN constraint_type_map
                     THEN NextEntry(searched)
                     ELSE [searched EXCEPT !.pc = "add"]]
        /\ UNCHANGED <<scene, nextId, comps, created, modifier, result>>

\* caller k calls ac.AddConstraint(constraint_type); the code does not say
\* what the backend does when a constraint of that type became active since
\* the search: it raises, or it adds a second one (dup)
RaceAdd(k, dup) ==
    LET f == rt.frames[k]
        target_name == f.constraints[f.i].name
        issued == [f EXCEPT !.calls = Append(f.calls, Call("AddConstraint", target_name))]
        raises == \/ f.fault = "AddConstraint"
                  \/ FindConstraint(scene[1].ac, target_name) # 0 /\ dup = "raise"
    IN  /\ f.pc = "add"
        /\ FindConstraint(scene[1].ac, target_name) = 0 => dup = "second"
        /\ IF raises
           THEN /\ rt' = [rt EXCEPT !.frames[k] =
                             NextEntry([issued EXCEPT !.raised = Append(f.raised, target_name)])]
                /\ UNCHANGED scene
           ELSE /\ scene' = [scene EXCEPT ![1].ac =
                                Append(@, NewConstraint(constraint_type_map[target_name]))]
                /\ rt' = [rt EXCEPT !.frames[k] =
                             [issued EXCEPT !.pc = "qi", !.found = Len(scene[1].ac) + 1]]
        /\ UNCHANGED <<nextId, comps, created, modifier, result>>

\* caller k calls found_constraint.QueryInterface(IAgAccessCnstrMinMax)
RaceQueryMinMax(k) ==
    LET f == rt.frames[k]
    IN  /\ f.pc = "qi"
        /\ rt' = [rt EXCEPT !.frames[k] =
                     IF ~SupportsMinMax(scene[1].ac[f.found].ctype) \/ f.fault = "MinMaxQI"
                     THEN NextEntry(f)
                     ELSE NextWrite(f, f.constraints[f.i], "qi")]
        /\ UNCHANGED <<scene, nextId, comps, created, modifier, result>>

\* caller k sets minmax.EnableMin or minmax.EnableMax
RaceEnable(k) ==
    LET f == rt.frames[k]
    IN  /\ f.pc \in {"EnableMin", "EnableMax"}
        /\ scene' = IF f.pc = "EnableMin"
                    THEN [scene EXCEPT ![1].ac[f.found].enMin = TRUE]
                    ELSE [scene EXCEPT ![1].ac[f.found].enMax = TRUE]
        /\ rt' = [rt EXCEPT !.frames[k].pc = IF f.pc = "EnableMin" THEN "Min" ELSE "Max"]
        /\ UNCHANGED <<nextId, comps, created, modifier, result>>

\* caller k sets minmax.Min or minmax.Max
RaceSetValue(k) ==
    LET f == rt.frames[k]
        c == f.constraints[f.i]
        written == [f EXCEPT !.calls =
                       Append(f.calls, Call(IF f.pc = "Min" THEN "SetMin" ELSE "SetMax", c.name))]
    IN  /\ f.pc \in {"Min", "Max"}
        /\ scene' = IF f.pc = "Min"
                    THEN [scene EXCEPT ![1].ac[f.found].min = c.min]
                    ELSE [scene EXCEPT ![1].ac[f.found].max = c.max]
        /\ rt' = [rt EXCEPT !.frames[k] = NextWrite(written, c, f.pc)]
        /\ UNCHANGED <<nextId, comps, created, modifier, result>>

\* the backend calls of the two callers, in any interleaving
RaceNext ==
    \/ \E k \in 1..2 : RaceSearch(k)
    \/ \E k \in 1..2, dup \in {"raise", "second"} : RaceAdd(k, dup)
    \/ \E k \in 1..2 : RaceQueryMinMax(k)
    \/ \E k \in 1..2 : RaceEnable(k)
    \/ \E k \in 1..2 : RaceSetValue(k)

SpecRace == RaceInit /\ [][RaceNext]_vars

\* factory.create(R) while a step of the constraint application may fail
CreateFromRecord(fault) ==
    LET Done(r) ==
            /\ scene' = r.scene
            /\ nextId' = r.nextId
            /\ comps' = IF r.err = "" THEN Append(comps, r.comp) ELSE comps
            /\ created' = IF r.err = "" THEN Append(created, Len(comps) + 1) ELSE created
            /\ result' = Result("create", r.err, r.calls)
            /\ rt' = [rt EXCEPT !.pc = IF r.err = "" THEN "created" ELSE "failed",
                                !.fault = fault]
    IN  /\ rt.pc = "start"
        /\ Done(FactoryCreate(scene, nextId, rt.R, fault))
        /\ UNCHANGED modifier

\* the creation of one object from a record, its constraints included
SpecCons == RTInit /\ [][\E fault \in RTCreateFaults(rt.R) : CreateFromRecord(fault)]_vars

\* the live object the round trip ended with
RTObject == scene[FindObject(scene, TypeNameMap(rt.R.type), rt.R.name)]

-----------------------------------------------------------------------------
(* The lifecycle: components, the factory and the batch creation script *)

Names == {"A", "B"}

Kinds == {"Satellite", "Facility"}

\* the name of the components a caller constructs directly: one name, so that
\* several components stand for the same object
ComponentNames == {"A"}

\* the round-trip scenario at rest
RTIdle ==
    [pc |-> "idle", R |-> EmptyDict, fault |-> "none",
     desc |-> EmptyDict, norm |-> EmptyDict, live |-> EmptyDict]

\* keyword arguments of a direct create() call
CreateKwargs(kind) ==
    IF kind = "Facility"
    THEN {[latitude |-> 40, longitude |-> 116, altitude |-> 5],
          [latitude |-> 40, longitude |-> 116, altitude |-> 5,
           constraints |-> <<[name |-> "ElevationAngle", min |-> 10]>>]}
    ELSE {[propagator |-> TWO_BODY, semi_major_axis |-> 7200], EmptyDict}

\* the backend step of create() that raises
CreateFaults(kind) ==
    IF kind = "Facility"
    THEN {"none", "New", "QueryInterface", "AssignGeodetic"}
    ELSE {"none", "New", "QueryInterface", "Assign"}

\* records handed to the factory
FactoryConfigs ==
    {[type |-> "Facility", name |-> "A",
      position |-> [latitude |-> 40, longitude |-> 116, altitude |-> 5],
      constraints |-> <<[name |-> "ElevationAngle", min |-> 10]>>],
     [type |-> "Facility", name |-> "B"],
     [type |-> "Satellite", name |-> "A", propagator |-> <<"TwoBody">>],
     [type |-> "Facility"],
     [type |-> "Satellite", step |-> 30],
     [type |-> "Sensor", name |-> "A"],
     [name |-> "A"]}

\* records of a batch
BatchConfigs ==
    {[type |-> "Facility", name |-> "A"],
     [type |-> "Facility", name |-> "B"],
     [type |-> "Facility", position |-> [latitude |-> 40, longitude |-> 116]]}

Batches == SeqsUpTo(BatchConfigs, MaxObjects) \ {<<>>}

Init ==
    /\ scene = <<>>
    /\ nextId = 1
    /\ comps = <<>>
    /\ created = <<>>
    /\ modifier = Modifier("Facility")
    /\ result = Result("init", "", <<>>)
    /\ rt = RTIdle

\* a caller constructs a component object: FacilityComponent(connection, name)
Construct(kind, name) ==
    /\ Len(comps) < MaxComps
    /\ comps' = Append(comps, Component(kind, name))
    /\ result' = Result("construct", "", <<>>)
    /\ UNCHANGED <<scene, nextId, created, modifier, rt>>

\* component.create(**kwargs)
Create(i, kwargs, fault) ==
    LET Done(r) ==
            /\ scene' = r.scene
            /\ nextId' = r.nextId
            /\ comps' = [comps EXCEPT ![i] = r.comp]
            /\ result' = Result("create", r.err, r.calls)
    IN  /\ nextId <= MaxObjects
        /\ Done(ComponentCreate(scene, nextId, comps[i], kwargs, fault))
        /\ UNCHANGED <<created, modifier, rt>>

\* component.load_from_existing()
Load(i, fault) ==
    LET Done(r) ==
            /\ comps' = [comps EXCEPT ![i] = r.comp]
            /\ result' = Result("load", r.err, r.calls)
    IN  /\ Done(ComponentLoad(scene, comps[i], fault))
        /\ UNCHANGED <<scene, nextId, created, modifier, rt>>

\* component.delete()
Delete(i, fault) ==
    LET Done(r) ==
            /\ scene' = r.scene
            /\ comps' = [comps EXCEPT ![i] = r.comp]
            /\ result' = Result("delete", r.err, r.calls)
    IN  /\ Done(ComponentDelete(scene, comps[i], fault))
        /\ UNCHANGED <<nextId, created, modifier, rt>>

\* factory.create(config): the component is tracked when from_dict returns
FactoryCreateOne(config, fault) ==
    LET Done(r) ==
            /\ scene' = r.scene
            /\ nextId' = r.nextId
            /\ comps' = IF r.err = "" THEN Append(comps, r.comp) ELSE comps
            /\ created' = IF r.err = "" THEN Append(created, Len(comps) + 1) ELSE created
            /\ result' = Result("factory_create", r.err, r.calls)
    IN  /\ nextId <= MaxObjects
        /\ Done(FactoryCreate(scene, nextId, config, fault))
        /\ UNCHANGED <<modifier, rt>>

\* factory.create_many(configs)
FactoryCreateMany(configs) ==
    LET Done(r) ==
            /\ scene' = r.scene
            /\ nextId' = r.nextId
            /\ comps' = r.comps
            /\ created' = r.created
            /\ result' = [op |-> "create_many", err |-> r.err, calls |-> r.calls,
                          batch |-> configs, made |-> r.made, errAt |-> r.errAt]
    IN  /\ nextId + Len(configs) - 1 <= MaxObjects
        /\ Done(CreateMany(scene, nextId, comps, created, configs))
        /\ UNCHANGED <<modifier, rt>>

\* one pass of the creation script's loop: _prepare_components, then
\* _create_components on what is ready; an exception is printed, not raised
RunCreateScript(type_name, configs, delete_existing, fault) ==
    LET Done(r) ==
            /\ scene' = r.scene
            /\ nextId' = r.nextId
            /\ comps' = r.comps
            /\ created' = r.created
            /\ result' = [op |-> "script", err |-> r.err, calls |-> r.calls,
                          batch |-> configs, made |-> r.made, errAt |-> r.errAt]
        Prepared(q) ==
            Done(CreateMany(q.scene, nextId, comps, created, q.ready))
    IN  /\ nextId + Len(configs) - 1 <= MaxObjects
        /\ Prepared(PrepareComponents(scene, type_name, configs, delete_existing, fault))
        /\ UNCHANGED <<modifier, rt>>

\* factory.delete_all_created()
FactoryDeleteAllCreated(faults) ==
    LET Done(r) ==
            /\ scene' = r.scene
            /\ comps' = r.comps
            /\ created' = <<>>
            /\ result' = Result("delete_all", "", r.calls)
    IN  /\ Done(DeleteAllCreated(scene, comps, created, faults))
        /\ UNCHANGED <<nextId, modifier, rt>>

\* a caller working on component objects directly
Next ==
    \/ \E kind \in Kinds, name \in ComponentNames : Construct(kind, name)
    \/ \E i \in DOMAIN comps :
          \E kwargs \in CreateKwargs(comps[i].kind), fault \in CreateFaults(comps[i].kind) :
              Create(i, kwargs, fault)
    \/ \E i \in DOMAIN comps, fault \in {"none", "GetObjectFromPath", "QueryInterface"} :
          Load(i, fault)
    \/ \E i \in DOMAIN comps, fault \in {"none", "Unload"} : Delete(i, fault)

Spec == Init /\ [][Next]_vars

\* a caller working through one factory and the creation script
FactoryNext ==
    \/ \E config \in FactoryConfigs, fault \in {"none", "QueryInterface", "AccessConstraints"} :
          FactoryCreateOne(config, fault)
    \/ \E configs \in Batches : FactoryCreateMany(configs)
    \/ \E configs \in Batches, delete_existing \in BOOLEAN, fault \in {"none", "Unload"} :
          RunCreateScript("Facility", configs, delete_existing, fault)
    \/ \E i \in DOMAIN comps, fault \in {"none", "Unload"} : Delete(i, fault)

SpecFactory == Init /\ [][FactoryNext]_vars

\* a caller creating through one factory, deleting single components and
\* deleting everything the factory tracks
BulkNext ==
    \/ \E config \in BatchConfigs, fault \in {"none", "QueryInterface"} :
          FactoryCreateOne(config, fault)
    \/ \E i \in DOMAIN comps : Delete(i, "none")
    \/ \E faults \in [DOMAIN created -> {"none", "Unload"}] :
          FactoryDeleteAllCreated(faults)

SpecBulk == Init /\ [][BulkNext]_vars

-----------------------------------------------------------------------------
(* Export of the whole scene *)

\* what goes wrong with one child of the scene during an export: nothing, the
\* load of its component, the PropagatorType read of to_dict, a guarded read
\* of to_dict, the write of its file
ExportFaults == {"none", "GetObjectFromPath", "PropagatorType", "QueryPlanetodetic", "write"}

\* ComponentExporter._load_all_components from child i on: a child whose
\* component does not load is left out
RECURSIVE LoadAllLoop(_, _, _)
LoadAllLoop(sc, faults, i) ==
    LET Loaded(r) == IF r.err = "" THEN <<r.comp>> ELSE <<>>
    IN  IF i > Len(sc)
        THEN <<>>
        ELSE Loaded(ComponentLoad(sc, Component(sc[i].kind, sc[i].name), faults[i]))
             \o LoadAllLoop(sc, faults, i + 1)

\* ComponentExporter._load_all_components; get_children may raise
LoadAllComponents(sc, faults, childrenFail) ==
    IF childrenFail THEN <<>> ELSE LoadAllLoop(sc, faults, 1)

\* the keys of components_by_type, in the order of their insertion
RECURSIVE TypesOf(_)
TypesOf(components) ==
    LET Other(c) == c.kind # Head(components).kind
    IN  IF components = <<>>
        THEN <<>>
        ELSE <<Head(components).kind>> \o TypesOf(SelectSeq(Tail(components), Other))

\* the components in the order in which they are exported: type by type
RECURSIVE ExportOrder(_, _)
ExportOrder(components, types) ==
    LET Same(c) == c.kind = Head(types)
    IN  IF types = <<>>
        THEN <<>>
        ELSE SelectSeq(components, Same) \o ExportOrder(components, Tail(types))

\* the body of the export loop for one component: the file written, or
\* nothing when to_dict or the write raises
ExportFile(sc, comp, fault) ==
    IF GetInfoRaises(sc, comp, fault) \/ fault = "write"
    THEN <<>>
    ELSE <<[path |-> <<Lower(comp.kind), comp.name>>,
            content |->
                [components |->
                     <<NormalizeComponentDict(ToDict(sc, comp, fault), comp.kind)>>]
                @@ (IF comp.kind = "Facility"
                    THEN [description |-> comp.name]
                    ELSE EmptyDict)]>>

\* the export loop without its try: the first failure ends the export
RECURSIVE ExportLoopUnguarded(_, _, _)
ExportLoopUnguarded(sc, components, faults) ==
    LET Written(file) ==
            IF file = <<>>
            THEN <<>>
            ELSE file \o ExportLoopUnguarded(sc, Tail(components), faults)
    IN  IF components = <<>>
        THEN <<>>
        ELSE Written(ExportFile(sc, Head(components),
                                faults[IndexOfId(sc, Head(components).stk_object)]))

\* the export loop: exported_files after the components given
RECURSIVE ExportLoop(_, _, _)
ExportLoop(sc, components, faults) ==
    IF components = <<>>
    THEN <<>>
    ELSE ExportFile(sc, Head(components),
                    faults[IndexOfId(sc, Head(components).stk_object)])
         \o ExportLoop(sc, Tail(components), faults)

\* ComponentExporter.export_all_components: the files written and summary.json
ExportAllComponents(sc, faults, childrenFail) ==
    LET Written(components, files) ==
            [files |-> files,
             summary |->
                 [total_components |-> Len(components),
                  components_by_type |->
                      [t \in {c.kind : c \in Range(components)} |->
                           Cardinality({j \in DOMAIN components : components[j].kind = t})],
                  exported_files |-> [j \in DOMAIN files |-> files[j].path]]]
        Grouped(components) ==
            Written(components,
                    ExportLoop(sc, ExportOrder(components, TypesOf(components)), faults))
    IN  Grouped(LoadAllComponents(sc, faults, childrenFail))

\* the records of the objects of an exported scene
ExportRecords ==
    {[type |-> "Facility", name |-> "A",
      position |-> [latitude |-> 40, longitude |-> 116, altitude |-> 5],
      constraints |-> <<[name |-> "ElevationAngle", min |-> 10]>>],
     [type |-> "Satellite", name |-> "A"],
     [type |-> "Satellite", name |-> "B", propagator |-> <<"TwoBody">>]}

\* exporter.export_all_components(output_dir)
ExportAll(faults, childrenFail) ==
    /\ result' = [op |-> "export_all", err |-> "", calls |-> <<>>,
                  faults |-> faults, childrenFail |-> childrenFail,
                  out |-> ExportAllComponents(scene, faults, childrenFail)]
    /\ UNCHANGED <<scene, nextId, comps, created, modifier, rt>>

\* a scene built through the factory and exported
ExportNext ==
    \/ \E config \in ExportRecords : FactoryCreateOne(config, "none")
    \/ \E faults \in [1..Len(scene) -> ExportFaults] : ExportAll(faults, FALSE)
    \/ ExportAll([i \in 1..Len(scene) |-> "none"], TRUE)

SpecExport == Init /\ [][ExportNext]_vars

-----------------------------------------------------------------------------

(* Modification: one modifier and the objects of its class *)

\* the elements of an orbit patch and the attribute of the object each names
OrbitField ==
    [semi_major_axis |-> "sma", eccentricity |-> "ecc", inclination |-> "inc",
     raan |-> "raan", arg_of_perigee |-> "aop", true_anomaly |-> "ta"]

\* records the objects to modify are created from
ModRecords ==
    {[type |-> "Satellite", name |-> "A", propagator |-> <<p>>, orbit |-> OrbitInput,
      step |-> 30] :
        p \in {"J2Perturbation", "TwoBody", "HPOP", "J4Perturbation", "SGP4", "SPK"}}
    \cup {[type |-> "Facility", name |-> "A",
           position |-> [latitude |-> 40, longitude |-> 116, altitude |-> 5],
           constraints |-> <<[name |-> "ElevationAngle", min |-> 10]>>],
          [type |-> "Facility", name |-> "A"]}

OrbitPatches ==
    {[inclination |-> 51], [semi_major_axis |-> 7500],
     [eccentricity |-> 2, raan |-> 10], [arg_of_perigee |-> 20, true_anomaly |-> 200],
     [semi_major_axis |-> 7500, eccentricity |-> 2, inclination |-> 51,
      raan |-> 10, arg_of_perigee |-> 20, true_anomaly |-> 200],
     EmptyDict}

\* the patches handed to apply
ModPatches(kind) ==
    IF kind = "Satellite"
    THEN {[orbit |-> o] : o \in OrbitPatches}
         \cup {EmptyDict,
               [propagator |-> [step |-> 10]],
               [orbit |-> [inclination |-> 51], propagator |-> [step |-> 10]],
               [constraints |-> <<[name |-> "ElevationAngle", min |-> 5]>>]}
    ELSE {[position |-> x] : x \in SubDicts([latitude |-> 39, longitude |-> 100, altitude |-> 250])}
         \cup {EmptyDict,
               [constraints |-> <<[name |-> "ElevationAngle", max |-> 80]>>],
               [constraints |-> <<[name |-> "ElevationAngle", disable_min |-> TRUE]>>],
               [constraints |-> <<[name |-> "ElevationAngle", min |-> 20,
                                   disable_min |-> TRUE, disable_max |-> TRUE]>>],
               [constraints |-> <<[name |-> "Range", min |-> 1],
                                  [name |-> "ElevationAngle", min |-> 20]>>],
               [position |-> [latitude |-> 39],
                constraints |-> <<[name |-> "ElevationAngle", max |-> 80]>>]}

\* the backend call of apply that raises
ModFaults(kind) ==
    IF kind = "Satellite"
    THEN {"none", "PropagatorType", "ConvertTo", "SizeShapeQI", "Assign", "Propagate",
          "SetStep", "AccessConstraints"}
    ELSE {"none", "Position", "QueryPlanetodetic", "AssignGeodetic", "AccessConstraints",
          "MinMaxQI"}

\* a caller has constructed a modifier of one class
ModInit ==
    /\ scene = <<>>
    /\ nextId = 1
    /\ comps = <<>>
    /\ created = <<>>
    /\ \E kind \in Kinds : modifier = Modifier(kind)
    /\ result = Result("init", "", <<>>)
    /\ rt = RTIdle

\* factory.create(config) for an object of the modifier's class
ModCreate(config) ==
    LET Done(r) ==
            /\ scene' = r.scene
            /\ nextId' = r.nextId
            /\ comps' = IF r.err = "" THEN Append(comps, r.comp) ELSE comps
            /\ created' = IF r.err = "" THEN Append(created, Len(comps) + 1) ELSE created
            /\ result' = Result("create", r.err, r.calls)
    IN  /\ TypeNameMap(config.type) = modifier.kind
        /\ nextId <= MaxObjects
        /\ Done(FactoryCreate(scene, nextId, config, "none"))
        /\ UNCHANGED <<modifier, rt>>

\* modifier.load(name)
ModLoad(name, fault) ==
    LET Done(r) ==
            /\ modifier' = r.mod
            /\ result' = Result("load", r.err, r.calls)
    IN  /\ Done(ModifierLoad(scene, modifier, name, fault))
        /\ UNCHANGED <<scene, nextId, comps, created, rt>>

\* modifier.apply(changes); the scene before the call is kept for comparison
ModApply(changes, fault) ==
    LET Done(r) ==
            /\ scene' = r.scene
            /\ result' = [op |-> "apply", err |-> r.err, calls |-> r.calls,
                          patch |-> changes, before |-> scene]
    IN  /\ Done(ModifierApply(scene, modifier, changes, fault))
        /\ UNCHANGED <<nextId, comps, created, modifier, rt>>

\* the property paths and values handed to set
ModPaths(kind) ==
    IF kind = "Satellite"
    THEN {[path |-> <<"orbit", "inclination">>, value |-> 51],
          [path |-> <<"propagator", "step">>, value |-> 10]}
    ELSE {[path |-> <<"position", "latitude">>, value |-> 39],
          [path |-> <<"position", "altitude">>, value |-> 250]}

\* modifier.set(property_path, value)
ModSet(property_path, value, fault) ==
    LET Done(r) ==
            /\ scene' = r.scene
            /\ result' = [op |-> "set", err |-> r.err, calls |-> r.calls,
                          patch |-> BuildNestedDict(property_path, value),
                          before |-> scene,
                          path |-> property_path, value |-> value, fault |-> fault]
    IN  /\ Done(ModifierSet(scene, modifier, property_path, value, fault))
        /\ UNCHANGED <<nextId, comps, created, modifier, rt>>

ModNext ==
    \/ \E config \in ModRecords : ModCreate(config)
    \/ \E name \in Names, fault \in {"none", "GetObjectFromPath", "QueryInterface"} :
          ModLoad(name, fault)
    \/ \E changes \in ModPatches(modifier.kind), fault \in ModFaults(modifier.kind) :
          ModApply(changes, fault)
    \/ \E p \in ModPaths(modifier.kind), fault \in ModFaults(modifier.kind) :
          ModSet(p.path, p.value, fault)
    \/ \E changes \in ModPatches(modifier.kind), fault \in ModFaults(modifier.kind) :
          /\ DOMAIN changes = {"constraints"}
          /\ ModSet(<<"constraints">>, changes.constraints, fault)

SpecMod == ModInit /\ [][ModNext]_vars

-----------------------------------------------------------------------------
(* Properties of the round trip (SpecRT) *)

RTKind == TypeNameMap(rt.R.type)

RTExported == rt.pc \in {"exported", "deleted", "recreated", "refailed"}

RTFinished == rt.pc \in {"recreated", "refailed"}

\* the constraints list of the normalized record, empty when the key is absent
RTNormConstraints == Get(rt.norm, "constraints", <<>>)

\* C1: a facility created by the factory from R, described, normalized,
\* deleted and re-created from the normalized record (every backend read of
\* the describe pass succeeding) is live again with the same latitude,
\* longitude and altitude and the same set of enabled min/max constraints,
\* the line of sight ignored; for the Beijing record the normalized
\* constraints list is exactly [{name: ElevationAngle, min: 10.0}].
C1_FacilityRoundTrip ==
    /\ (RTFinished /\ RTKind = "Facility" /\ rt.fault = "none")
          => (rt.pc = "recreated" /\ LiveAttrs(RTObject) = rt.live)
    /\ (RTExported /\ rt.R = BeijingRecord /\ rt.fault = "none")
          => (/\ "constraints" \in DOMAIN rt.norm
              /\ rt.norm.constraints = <<[name |-> "ElevationAngle", min |-> 10]>>)

C1_Witness ==
    /\ rt.pc = "recreated"
    /\ rt.R = BeijingRecord
    /\ rt.fault = "none"
    /\ rt.live.altitude = 5
    /\ rt.live.constraints = {[name |-> "ElevationAngle", min |-> 10]}

\* C2: a satellite created by the factory with the J2 propagator, described,
\* normalized, deleted and re-created from the normalized record (every
\* backend read succeeding) has the same propagator kind, step, semi-major
\* axis, eccentricity, inclination, RAAN, argument of perigee and true anomaly.
C2_J2RoundTrip ==
    (RTFinished /\ RTKind = "Satellite" /\ rt.fault = "none"
        /\ rt.live.propagator = J2_PERTURBATION)
    => (rt.pc = "recreated" /\ LiveAttrs(RTObject) = rt.live)

C2_Witness ==
    /\ rt.pc = "recreated"
    /\ RTKind = "Satellite"
    /\ rt.fault = "none"
    /\ rt.live.propagator = J2_PERTURBATION
    /\ rt.live.semi_major_axis = 7200
    /\ rt.live.true_anomaly = 120
    /\ rt.live.step = 30

\* C3: a satellite created by the factory with the two-body propagator and
\* explicit elements and step, described, normalized, deleted and re-created
\* from the normalized record has the same orbital elements and step.
C3_TwoBodyRoundTrip ==
    (RTFinished /\ RTKind = "Satellite" /\ rt.fault = "none"
        /\ rt.live.propagator = TWO_BODY)
    => (rt.pc = "recreated" /\ LiveAttrs(RTObject) = rt.live)

\* C9: no normalized export record contains a constraint entry that has
\* neither a min nor a max key, whatever the described constraint list.
C9_NoNameOnlyConstraint ==
    RTExported =>
        \A i \in DOMAIN RTNormConstraints :
            "min" \in DOMAIN RTNormConstraints[i] \/ "max" \in DOMAIN RTNormConstraints[i]

\* the exported object carries a min/max constraint with no bound enabled
\* next to one that is exported
C9_Witness ==
    /\ rt.pc = "exported"
    /\ RTNormConstraints # <<>>
    /\ \E c \in Range(RTObject.ac) :
          SupportsMinMax(c.ctype) /\ ~c.enMin /\ ~c.enMax

\* C10: the line-of-sight constraint never appears in the constraints list
\* of a normalized export record, for either component kind.
C10_NoLineOfSight ==
    RTExported =>
        \A i \in DOMAIN RTNormConstraints :
            /\ RTNormConstraints[i].name # "LineOfSight"
            /\ Get(RTNormConstraints[i], "type", "") # "LineOfSight"

\* the description held the line of sight and other constraints were exported
C10_Witness ==
    /\ rt.pc = "exported"
    /\ RTNormConstraints # <<>>
    /\ \E i \in DOMAIN rt.desc.constraints : rt.desc.constraints[i].name = "LineOfSight"

-----------------------------------------------------------------------------
(* Properties of the component lifecycle (Spec) *)

\* C4: after any sequence of create(), load_from_existing() and delete()
\* calls on a component, failing calls included, its live handle
\* (_stk_object) and its configuration interface (_interface) are both
\* present or both absent.
C4_HandlePair ==
    \A i \in DOMAIN comps : (comps[i].stk_object = 0) <=> (comps[i].interface = 0)

-----------------------------------------------------------------------------
(* Properties of the factory and the creation script (SpecFactory) *)

\* at most one live object per (kind, name)
NoDuplicate(sc) ==
    \A i, j \in DOMAIN sc :
        (sc[i].kind = sc[j].kind /\ sc[i].name = sc[j].name) => i = j

Named(batch) == {i \in DOMAIN batch : Get(batch[i], "name", "") # ""}

\* C6: for a batch given to create_many in which a record lacks its name,
\* every record with a name, before and after it, is created, the nameless
\* one is reported as a missing field, and the loop reaches the last item.
C6_BatchPartialFailure ==
    (/\ result.op = "create_many"
     /\ Named(result.batch) # DOMAIN result.batch
     /\ result.err \in {"", "missing_name"})
    => /\ result.err = "missing_name"
       /\ \A i \in Named(result.batch) : i \in Range(result.made)

-----------------------------------------------------------------------------
(* Properties of modification (SpecMod) *)

\* the object the last apply worked on, before and after the call
ModBefore == result.before[ModTarget(result.before, modifier)]

ModAfter == scene[ModTarget(scene, modifier)]

\* C7: an orbit patch applied to a loaded J2 or two-body satellite changes
\* exactly the elements it contains: every element it leaves out is as it
\* was, so is the step when the patch has no propagator section, and when
\* apply returns every element of the patch has the patch's value.
C7_OrbitPatchMinimality ==
    (/\ result.op = "apply"
     /\ modifier.kind = "Satellite"
     /\ "orbit" \in DOMAIN result.patch
     /\ ModTarget(result.before, modifier) # 0
     /\ ModBefore.prop \in {J2_PERTURBATION, TWO_BODY})
    => /\ \A k \in DOMAIN OrbitField \ DOMAIN result.patch.orbit :
              ModAfter[OrbitField[k]] = ModBefore[OrbitField[k]]
       /\ "propagator" \notin DOMAIN result.patch => ModAfter.step = ModBefore.step
       /\ result.err = "" =>
              \A k \in DOMAIN result.patch.orbit :
                  ModAfter[OrbitField[k]] = result.patch.orbit[k]

\* an inclination-only patch was applied to a two-body satellite whose
\* elements had all been set
C7_Witness ==
    /\ result.op = "apply"
    /\ result.err = ""
    /\ modifier.kind = "Satellite"
    /\ result.patch = [orbit |-> [inclination |-> 51]]
    /\ ModTarget(result.before, modifier) # 0
    /\ ModBefore.prop = TWO_BODY
    /\ ModBefore.inc = 98
    /\ ModBefore.sma = 7200
    /\ ModAfter.inc = 51

\* C8: a facility patch whose position holds only some of latitude,
\* longitude and altitude leaves every coordinate it does not hold as it
\* was, whenever apply returns without error, a failed read of the current
\* position included.
C8_PositionPatchMinimality ==
    (/\ result.op = "apply"
     /\ modifier.kind = "Facility"
     /\ "position" \in DOMAIN result.patch
     /\ DOMAIN result.patch.position # {}
     /\ result.err = "")
    => /\ "latitude" \notin DOMAIN result.patch.position => ModAfter.lat = ModBefore.lat
       /\ "longitude" \notin DOMAIN result.patch.position => ModAfter.lon = ModBefore.lon
       /\ "altitude" \notin DOMAIN result.patch.position => ModAfter.alt = ModBefore.alt

-----------------------------------------------------------------------------
(* Further properties of the component lifecycle (Spec) *)

\* C11: delete() on a component that is unbound (never created, or already
\* deleted) makes no backend call, raises nothing and leaves the component
\* and the scene as they were; a delete() that returns leaves the component
\* unbound, so a second delete() adds nothing to the first.
C11_DeleteIdempotent ==
    [][\A i \in DOMAIN comps, fault \in {"none", "Unload"} :
          Delete(i, fault) =>
              /\ comps[i].stk_object = 0 =>
                    /\ result'.calls = <<>>
                    /\ result'.err = ""
                    /\ comps' = comps
                    /\ scene' = scene
              /\ result'.err = "" =>
                    /\ comps'[i].stk_object = 0
                    /\ comps'[i].interface = 0]_vars

\* the only component was created, deleted, and deleted once more
C11_Witness ==
    /\ result.op = "delete"
    /\ result.err = ""
    /\ result.calls = <<>>
    /\ Len(comps) = 1
    /\ comps[1].stk_object = 0
    /\ nextId = 2
    /\ scene = <<>>

-----------------------------------------------------------------------------
(* Further properties of the factory (SpecFactory, SpecBulk) *)

\* a record factory.create cannot build a component from
Malformed(config) ==
    \/ Get(config, "type", "") = ""
    \/ TypeNameMap(Get(config, "type", "")) = ""
    \/ Get(config, "name", "") = ""

\* C12: factory.create on a record whose type tag is absent or not
\* registered, or whose name is absent, raises, makes no backend call,
\* allocates no object and leaves the tracked collection as it was.
C12_MalformedRecord ==
    [][\A config \in FactoryConfigs, fault \in {"none", "QueryInterface", "AccessConstraints"} :
          (Malformed(config) /\ FactoryCreateOne(config, fault)) =>
              /\ result'.err # ""
              /\ result'.calls = <<>>
              /\ scene' = scene
              /\ nextId' = nextId
              /\ comps' = comps
              /\ created' = created]_vars

\* a record without a name was refused by a factory that tracks a component
C12_Witness ==
    /\ result.op = "factory_create"
    /\ result.err = "missing_name"
    /\ scene # <<>>
    /\ created # <<>>

-----------------------------------------------------------------------------
(* Further properties of modification (SpecMod) *)

\* C13: apply() or set() on a modifier that no load() has bound, a modifier
\* whose load() failed included, raises the not-loaded error and writes
\* nothing to the backend.
C13_NotLoaded ==
    (result.op \in {"apply", "set"} /\ modifier.interface = 0)
    => /\ result.err = "not_loaded"
       /\ result.calls = <<>>
       /\ scene = result.before

-----------------------------------------------------------------------------
(* Properties of the export of a scene (SpecExport) *)

\* the file export_all_components owes to child i of the scene
ExportOwed(i) ==
    [path |-> <<Lower(scene[i].kind), scene[i].name>>,
     content |->
         [components |->
              <<NormalizeComponentDict(
                    ToDict(scene, [kind |-> scene[i].kind, name |-> scene[i].name,
                                   stk_object |-> scene[i].id, interface |-> scene[i].id],
                           result.faults[i]),
                    scene[i].kind)>>]
         @@ (IF scene[i].kind = "Facility"
             THEN [description |-> scene[i].name]
             ELSE EmptyDict)]

\* C14: whatever fails on the other components, every component that loads,
\* describes and writes without failure has its file written and listed in
\* the summary's exported_files, and the summary is produced, listing
\* exactly the files written.
C14_ExportPartialFailure ==
    result.op = "export_all" =>
        /\ result.err = ""
        /\ result.out.summary.exported_files
               = [j \in DOMAIN result.out.files |-> result.out.files[j].path]
        /\ \A i \in DOMAIN scene :
              ( /\ ~result.childrenFail
                /\ result.faults[i] \in {"none", "QueryPlanetodetic"}
                   \/ (result.faults[i] = "PropagatorType" /\ scene[i].kind = "Facility") )
              => /\ ExportOwed(i) \in Range(result.out.files)
                 /\ ExportOwed(i).path \in Range(result.out.summary.exported_files)

\* an export of three objects in which the first fails to describe, the
\* second is written and the third fails to write
C14_Witness ==
    /\ result.op = "export_all"
    /\ Len(scene) = 3
    /\ scene[1].kind = "Satellite"
    /\ result.faults = <<"PropagatorType", "none", "write">>
    /\ scene[2].kind = "Satellite"
    /\ Len(result.out.files) = 1
    /\ result.out.summary.total_components = 3

-----------------------------------------------------------------------------
(* Properties of the constraints applied on creation (SpecCons) *)

\* the arguments of the calls of kind op in a call log, in order
CallArgs(calls, op) ==
    LET Is(c) == c.op = op
        Args(s) == [k \in DOMAIN s |-> s[k].arg]
    IN  Args(SelectSeq(calls, Is))

\* the names of the entries of a constraint list that carry one, in order
EntryNames(constraints) ==
    LET Named1(c) == Get(c, "name", "") # ""
        NamesOf(s) == [k \in DOMAIN s |-> s[k].name]
    IN  NamesOf(SelectSeq(constraints, Named1))

\* C15: creating a facility from a record with constraints raises nothing
\* when a name is unregistered, an add fails or min/max cannot be set; every
\* entry is processed in order, each add comes right after the search for the
\* same name, and nothing is written for an entry that is skipped.
C15_ConstraintsOnCreation ==
    (result.op = "create" /\ "constraints" \in DOMAIN rt.R) =>
        /\ result.err = ""
        /\ CallArgs(result.calls, "Search") = EntryNames(rt.R.constraints)
        /\ \A k \in DOMAIN result.calls :
              result.calls[k].op = "AddConstraint" =>
                  /\ k > 1
                  /\ result.calls[k - 1] = Call("Search", result.calls[k].arg)
                  /\ result.calls[k].arg \in DOMAIN constraint_type_map
        /\ \A k \in DOMAIN result.calls :
              result.calls[k].op \in {"SetMin", "SetMax"} =>
                  /\ result.calls[k].arg \in DOMAIN constraint_type_map
                  /\ SupportsMinMax(constraint_type_map[result.calls[k].arg])

\* a facility created from an unregistered constraint followed by a
\* registered one: the first is skipped, the second is added and bounded
C15_Witness ==
    /\ result.op = "create"
    /\ result.err = ""
    /\ "constraints" \in DOMAIN rt.R
    /\ rt.R.constraints = <<[name |-> "Bogus", max |-> 7], [name |-> "ElevationAngle", min |-> 10]>>
    /\ Call("AddConstraint", "Bogus") \notin Range(result.calls)
    /\ Call("SetMin", "ElevationAngle") \in Range(result.calls)
    /\ scene[1].ac[2].enMin /\ scene[1].ac[2].min = 10

\* C16: a constraint patch applied through a loaded modifier of either class,
\* every backend call succeeding, raises nothing: an entry whose constraint is
\* unknown, inactive or without min/max is skipped and every other entry is
\* written.
C16_ConstraintPatchNonFatal ==
    [][\A changes \in ModPatches(modifier.kind) :
          ( /\ DOMAIN changes = {"constraints"}
            /\ modifier.interface # 0
            /\ ModTarget(scene, modifier) # 0
            /\ ModApply(changes, "none") )
          => /\ result'.err = ""
             /\ scene'[ModTarget(scene, modifier)].ac
                    = FacilityConstraintChangesLoop(scene[ModTarget(scene, modifier)].ac,
                                                    changes.constraints, 1, "none")]_vars

-----------------------------------------------------------------------------
(* Further properties of the description (SpecRT) *)

\* C17: the description of a bound component marks every failed backend read
\* in the sub-record it belongs to: a position that cannot be read carries an
\* error entry, and a constraints list that cannot be read is not the empty
\* list a successful read of an object without reportable constraints gives.
C17_DescribeMarksFailedReads ==
    /\ (RTExported /\ RTKind = "Facility" /\ rt.fault = "QueryPlanetodetic")
          => "error" \in DOMAIN rt.desc.position
    /\ (RTExported /\ rt.fault = "AccessConstraints")
          => rt.desc.constraints # <<>>

-----------------------------------------------------------------------------
(* Further properties of the factory (SpecFactory, SpecBulk) *)

\* C18: the factory's tracked collection holds no component twice; a create
\* that returns appends the component it made, bound and under the record's
\* name, and a create that raises appends nothing; create_many appends the
\* components of the records it created, in input order, after what was
\* tracked before.
C18_FactoryTracking ==
    /\ \A i, j \in DOMAIN created : created[i] = created[j] => i = j
    /\ [][/\ \A config \in FactoryConfigs,
                fault \in {"none", "QueryInterface", "AccessConstraints"} :
                (result'.op = "factory_create" /\ FactoryCreateOne(config, fault)) =>
                    IF result'.err = ""
                    THEN /\ Len(comps') = Len(comps) + 1
                         /\ created' = Append(created, Len(comps'))
                         /\ comps'[Len(comps')].name = config.name
                         /\ comps'[Len(comps')].stk_object # 0
                    ELSE created' = created
          /\ \A configs \in Batches :
                ( /\ result'.op = "create_many"
                  /\ result'.batch = configs
                  /\ FactoryCreateMany(configs) ) =>
                    /\ Len(created') = Len(created) + Len(result'.made)
                    /\ SubSeq(created', 1, Len(created)) = created
                    /\ \A k \in DOMAIN result'.made :
                          /\ result'.made[k] = k
                          /\ comps'[created'[Len(created) + k]].name = configs[k].name
                          /\ comps'[created'[Len(created) + k]].stk_object # 0
                    /\ (result'.err = "" => Len(result'.made) = Len(configs))]_vars

\* a batch of two created after a single component: three tracked, in order
C18_Witness ==
    /\ result.op = "create_many"
    /\ result.err = ""
    /\ Len(result.made) = 2
    /\ created = <<1, 2, 3>>
    /\ comps[1].kind = "Satellite"
    /\ comps[2].name = "A" /\ comps[3].name = "B"

\* C19: delete_all_created raises nothing and leaves the tracked collection
\* empty; it calls Unload for every tracked component that holds a handle, in
\* tracked order, whatever the earlier deletes did, and every tracked
\* component whose Unload succeeds is unbound and its object gone.
C19_BulkDelete ==
    [][\A faults \in [DOMAIN created -> {"none", "Unload"}] :
          FactoryDeleteAllCreated(faults) =>
              /\ result'.err = ""
              /\ created' = <<>>
              /\ Len(CallArgs(result'.calls, "Unload"))
                     = Cardinality({k \in DOMAIN created : comps[created[k]].stk_object # 0})
              /\ \A k \in DOMAIN created :
                    ( /\ comps[created[k]].stk_object # 0
                      /\ IndexOfId(scene, comps[created[k]].stk_object) # 0
                      /\ faults[k] = "none" )
                    => /\ comps'[created[k]].stk_object = 0
                       /\ comps'[created[k]].interface = 0
                       /\ IndexOfId(scene', comps[created[k]].stk_object) = 0]_vars

\* a bulk delete of two tracked components in which the first Unload fails
\* and the second succeeds
C19_Witness ==
    /\ result.op = "delete_all"
    /\ result.calls = <<Call("Unload", "A"), Call("Unload", "B")>>
    /\ created = <<>>
    /\ Len(comps) = 2
    /\ comps[1].stk_object # 0
    /\ comps[2].stk_object = 0
    /\ Len(scene) = 1

-----------------------------------------------------------------------------
(* Further properties of the component life cycle (Spec) *)

\* C20: load_from_existing, every backend call succeeding, leaves the scene
\* as it was and issues no write; when an object of the component's kind and
\* name is live the component is bound to it, otherwise the call raises and
\* the component is left unbound.
C20_LoadBindsOnly ==
    [][\A i \in DOMAIN comps :
          Load(i, "none") =>
              /\ scene' = scene
              /\ \A k \in DOMAIN result'.calls :
                    result'.calls[k].op \in {"GetObjectFromPath", "QueryInterface"}
              /\ IF FindObject(scene, comps[i].kind, comps[i].name) # 0
                 THEN /\ result'.err = ""
                      /\ comps'[i].stk_object
                             = scene[FindObject(scene, comps[i].kind, comps[i].name)].id
                      /\ comps'[i].interface = comps'[i].stk_object
                 ELSE /\ result'.err # ""
                      /\ comps'[i].stk_object = 0
                      /\ comps'[i].interface = 0]_vars

-----------------------------------------------------------------------------
(* Properties of the order of the backend calls (SpecMod) *)

\* whether every call of kind op in the log comes after a call of kind sel
SelectedBefore(calls, sel, op) ==
    \A k \in DOMAIN calls :
        calls[k].op = op => \E j \in 1..(k - 1) : calls[j].op = sel

\* C21: in every operation that writes orbital elements, the semi-major axis
\* and the eccentricity are written after SizeShapeType was selected in that
\* operation, the RAAN after AscNodeType, the true anomaly after LocationType,
\* and no element is written after the commit (Assign), which Propagate
\* follows at once.
C21_OrbitWriteOrdering ==
    /\ SelectedBefore(result.calls, "SizeShapeType", "SemiMajorAxis")
    /\ SelectedBefore(result.calls, "SizeShapeType", "Eccentricity")
    /\ SelectedBefore(result.calls, "AscNodeType", "RAAN")
    /\ SelectedBefore(result.calls, "LocationType", "TrueAnomaly")
    /\ \A k \in DOMAIN result.calls :
          result.calls[k].op = "Assign" =>
              /\ \A j \in (k + 1)..Len(result.calls) :
                    result.calls[j].op \notin
                        {"SemiMajorAxis", "Eccentricity", "Inclination", "ArgOfPerigee",
                         "RAAN", "TrueAnomaly"}
              /\ k < Len(result.calls) => result.calls[k + 1].op = "Propagate"

-----------------------------------------------------------------------------
(* Properties of the creation of a facility (Spec) *)

\* whether entry c of a constraint list is in force on the live object obj
ConstraintInForce(obj, c) ==
    /\ FindConstraint(obj.ac, c.name) # 0
    /\ "min" \in DOMAIN c =>
          /\ obj.ac[FindConstraint(obj.ac, c.name)].enMin
          /\ obj.ac[FindConstraint(obj.ac, c.name)].min = c.min
    /\ "max" \in DOMAIN c =>
          /\ obj.ac[FindConstraint(obj.ac, c.name)].enMax
          /\ obj.ac[FindConstraint(obj.ac, c.name)].max = c.max

\* C22: a facility created through create(..., constraints=[...]), every
\* backend call succeeding, has each constraint of the input in force, and
\* every constraint write comes after the AssignGeodetic call.
C22_ConstraintsAfterPosition ==
    [][\A i \in DOMAIN comps :
          \A kwargs \in CreateKwargs(comps[i].kind) :
              ( /\ comps[i].kind = "Facility"
                /\ "constraints" \in DOMAIN kwargs
                /\ Create(i, kwargs, "none")
                /\ result'.err = "" )
              => /\ \A k \in DOMAIN kwargs.constraints :
                       ConstraintInForce(scene'[IndexOfId(scene', comps'[i].stk_object)],
                                         kwargs.constraints[k])
                 /\ SelectedBefore(result'.calls, "AssignGeodetic", "SetMin")
                 /\ SelectedBefore(result'.calls, "AssignGeodetic", "SetMax")
                 /\ SelectedBefore(result'.calls, "AssignGeodetic", "AddConstraint")]_vars

-----------------------------------------------------------------------------
(* Properties of set (SpecMod) *)

\* whether patch is the record {k1: {k2: ... {kn: value}}} of the keys of path
RECURSIVE IsNested(_, _, _)
IsNested(patch, path, value) ==
    /\ DOMAIN patch = {Head(path)}
    /\ IF Len(path) = 1
       THEN patch[Head(path)] = value
       ELSE IsNested(patch[Head(path)], Tail(path), value)

\* C23: set(path, value) issues the backend calls, leaves the scene and ends
\* with the result of apply(patch), patch being the nested single-field
\* record of the keys of the path; this for paths of one key and of two.
C23_SetIsApply ==
    LET SameAs(r) ==
            /\ scene = r.scene
            /\ result.err = r.err
            /\ result.calls = r.calls
    IN  result.op = "set" =>
            /\ \E changes \in ModPatches(modifier.kind) :
                  /\ DOMAIN changes = {Head(result.path)}
                  /\ IsNested(changes, result.path, result.value)
            /\ \A changes \in ModPatches(modifier.kind) :
                  ( /\ DOMAIN changes = {Head(result.path)}
                    /\ IsNested(changes, result.path, result.value) )
                  => SameAs(ModifierApply(result.before, modifier, changes, result.fault))

\* set("orbit.inclination", 51) on a loaded satellite changed the inclination
C23_Witness ==
    /\ result.op = "set"
    /\ result.err = ""
    /\ result.patch = [orbit |-> [inclination |-> 51]]
    /\ ModTarget(scene, modifier) # 0
    /\ ModAfter.inc = 51
    /\ ModBefore.inc # 51
    /\ Call("Inclination", "") \in Range(result.calls)

-----------------------------------------------------------------------------
(* Properties of constraint patches (SpecMod) *)

\* what entry c of a constraint patch owes to one bound of the constraint it
\* names: en and val are the bound's flag and value before (b) and after (a)
BoundPatched(c, key, disable, enB, valB, enA, valA) ==
    IF key \in DOMAIN c
    THEN enA /\ valA = c[key]
    ELSE IF Get(c, disable, FALSE)
    THEN ~enA
    ELSE enA = enB /\ valA = valB

\* C24: a constraint patch applied with every backend call succeeding leaves,
\* for each entry whose constraint is active and has min/max, the min side and
\* the max side each as the entry says: a present bound is enabled with its
\* value, an absent bound with its disable flag set is off, an absent bound
\* without the flag is as it was.
C24_DisableFlagSemantics ==
    [][( /\ result'.op = "apply"
         /\ DOMAIN result'.patch = {"constraints"}
         /\ Len(result'.patch.constraints) = 1
         /\ ModTarget(scene, modifier) # 0
         /\ ~BoundsUnreachable(scene[ModTarget(scene, modifier)].ac,
                               result'.patch.constraints[1].name, "none")
         /\ ModApply(result'.patch, "none") )
       => LET c == result'.patch.constraints[1]
              k == FindConstraint(scene[ModTarget(scene, modifier)].ac, c.name)
              b == scene[ModTarget(scene, modifier)].ac[k]
              a == scene'[ModTarget(scene, modifier)].ac[k]
          IN  /\ result'.err = ""
              /\ BoundPatched(c, "min", "disable_min", b.enMin, b.min, a.enMin, a.min)
              /\ BoundPatched(c, "max", "disable_max", b.enMax, b.max, a.enMax, a.max)]_vars

\* a patch with disable_min alone turned off a minimum that was enabled and
\* left the maximum as it was
C24_Witness ==
    /\ result.op = "apply"
    /\ result.err = ""
    /\ result.patch = [constraints |-> <<[name |-> "ElevationAngle", disable_min |-> TRUE]>>]
    /\ ModTarget(scene, modifier) # 0
    /\ FindConstraint(ModBefore.ac, "ElevationAngle") # 0
    /\ ModBefore.ac[FindConstraint(ModBefore.ac, "ElevationAngle")].enMin
    /\ ModBefore.ac[FindConstraint(ModBefore.ac, "ElevationAngle")].enMax
    /\ ~ModAfter.ac[FindConstraint(ModAfter.ac, "ElevationAngle")].enMin
    /\ ModAfter.ac[FindConstraint(ModAfter.ac, "ElevationAngle")].enMax

\* C25: for each of the six propagator kinds the exporter reduces the described
\* propagator information to a bare tag with no blank and no parenthesised
\* decoration, the factory maps that tag to the kind the live satellite had,
\* and the satellite re-created from the record has that kind.
C25_PropagatorTagRoundTrip ==
    /\ (RTExported /\ RTKind = "Satellite") =>
          /\ "propagator" \in DOMAIN rt.norm
          /\ Len(rt.norm.propagator) = 1
          /\ rt.norm.propagator[1] \notin {"(", ")", " "}
          /\ PropMap(rt.norm.propagator) = rt.live.propagator
    /\ (RTFinished /\ RTKind = "Satellite") =>
          /\ rt.pc = "recreated"
          /\ RTObject.prop = rt.live.propagator

C25_Witness ==
    /\ rt.pc = "recreated"
    /\ RTKind = "Satellite"
    /\ rt.live.propagator = HPOP
    /\ rt.desc.propagator.type = <<"HPOP", " ", "(", "High", " ", "Precision", ")">>
    /\ rt.norm.propagator = <<"HPOP">>
    /\ RTObject.prop = HPOP

UnmanagedKinds == {HPOP, J4_PERTURBATION, SGP4, SPK}

\* C27: creating a satellite with the HPOP, J4, SGP4 or SPK propagator selects
\* that kind and writes no orbital element and no step (the object keeps the
\* backend's initial values), whatever the record holds; with every backend
\* call succeeding, an orbit patch on such a satellite raises a modify error
\* and writes nothing, and a patch of the step alone returns without error
\* and writes nothing.
C27_UnmanagedPropagators ==
    [][/\ \A i \in DOMAIN scene' :
             (scene'[i].kind = "Satellite" /\ scene'[i].prop \in UnmanagedKinds) =>
                 LiveAttrs(scene'[i]) =
                     [LiveAttrs(NewSatelliteObject(scene'[i].id, scene'[i].name))
                         EXCEPT !.propagator = scene'[i].prop]
       /\ \A config \in ModRecords :
             ( /\ result'.op = "create"
               /\ result'.err = ""
               /\ config.type = "Satellite"
               /\ PropMap(config.propagator) \in UnmanagedKinds
               /\ ModCreate(config) )
             => /\ result'.calls = <<Call("New", config.name), Call("QueryInterface", ""),
                                     Call("SetPropagatorType", "")>>
                /\ scene'[Len(scene')].prop = PropMap(config.propagator)
       /\ ( /\ result'.op = "apply"
            /\ modifier.kind = "Satellite"
            /\ ModTarget(scene, modifier) # 0
            /\ scene[ModTarget(scene, modifier)].prop \in UnmanagedKinds
            /\ ModApply(result'.patch, "none") )
          => /\ scene' = scene
             /\ "orbit" \in DOMAIN result'.patch =>
                   /\ result'.err = "STKModifyError"
                   /\ result'.calls = <<Call("PropagatorType", "")>>
             /\ DOMAIN result'.patch = {"propagator"} =>
                   /\ result'.err = ""
                   /\ result'.calls = <<Call("PropagatorType", "")>>]_vars

C27_Witness ==
    /\ result.op = "apply"
    /\ result.err = "STKModifyError"
    /\ result.patch = [orbit |-> [inclination |-> 51], propagator |-> [step |-> 10]]
    /\ ModTarget(scene, modifier) # 0
    /\ ModAfter.prop = SGP4
    /\ ModAfter.inc = 28
    /\ ModAfter.step = 60
    /\ ModAfter = ModBefore

\* C28: every live object of the scene allocated through the factory is the
\* object of a component the factory tracks, so that after a create that
\* raised no object allocated by that call is left in the scene and
\* delete_all_created reaches everything the factory allocated.
C28_NoUntrackedLeftovers ==
    \A i \in DOMAIN scene :
        \E k \in Range(created) : comps[k].stk_object = scene[i].id

\* C29: in the summary of every export, total_components is the sum of the
\* counts of components_by_type and the number of entries of exported_files,
\* and exported_files holds no path twice.
C29_ManifestConsistency ==
    LET Consistent(s) ==
            /\ s.total_components = Get(s.components_by_type, "Facility", 0)
                                    + Get(s.components_by_type, "Satellite", 0)
            /\ s.total_components = Len(s.exported_files)
            /\ \A i, j \in DOMAIN s.exported_files :
                  s.exported_files[i] = s.exported_files[j] => i = j
    IN  result.op = "export_all" => Consistent(result.out.summary)

-----------------------------------------------------------------------------
(* Properties of interleaved constraint application (SpecRace) *)

\* the number of calls of kind op with argument arg in a call log
CountCalls(calls, op, arg) ==
    Cardinality({j \in DOMAIN calls : calls[j] = Call(op, arg)})

\* the names whose add raised, counted
CountRaised(raised, n) == Cardinality({j \in DOMAIN raised : raised[j] = n})

RaceNames == {"ElevationAngle", "Lighting", "Bogus"}

\* C30, as the claim words its last part: a caller that runs alone issues at
\* most one add per name in one application.
C30_OneAddPerName ==
    \A k \in 1..2 :
        rt.frames[3 - k].constraints = <<>> =>
            \A n \in RaceNames : CountCalls(rt.frames[k].calls, "AddConstraint", n) <= 1

\* C30: in one application a caller issues a further add for a name only
\* after each earlier add for it raised (at most one of its adds per name
\* succeeds), alone or interleaved; a caller that runs alone leaves the
\* constraints and issues the calls of the sequential loop; two interleaved
\* callers can both find the name absent and both issue the add, and the
\* final constraint can carry bounds written by both (the witness).
C30_SearchAddSetNotAtomic ==
    /\ \A k \in 1..2, n \in RaceNames :
          CountCalls(rt.frames[k].calls, "AddConstraint", n)
              <= 1 + CountRaised(rt.frames[k].raised, n)
    /\ \A k \in 1..2 :
          LET SameAs(st) ==
                  /\ scene[1].ac = st.ac
                  /\ rt.frames[k].calls = st.calls
          IN  (rt.frames[3 - k].constraints = <<>> /\ rt.frames[k].pc = "done") =>
                  SameAs(SetConstraintsLoop([ac |-> rt.before, calls |-> <<>>],
                                            rt.frames[k].constraints, 1, rt.frames[k].fault))

\* both callers found ElevationAngle absent and issued the add, neither add
\* raised, and the first constraint added carries the min of one caller and
\* the max of the other
C30_Witness ==
    /\ rt.frames[1].pc = "done"
    /\ rt.frames[2].pc = "done"
    /\ rt.frames[1].constraints = <<[name |-> "ElevationAngle", min |-> 10]>>
    /\ rt.frames[2].constraints = <<[name |-> "ElevationAngle", max |-> 80]>>
    /\ CountCalls(rt.frames[1].calls, "AddConstraint", "ElevationAngle") = 1
    /\ CountCalls(rt.frames[2].calls, "AddConstraint", "ElevationAngle") = 1
    /\ rt.frames[1].raised = <<>>
    /\ rt.frames[2].raised = <<>>
    /\ Len(scene[1].ac) = 3
    /\ scene[1].ac[2].enMin /\ scene[1].ac[2].min = 10
    /\ ~scene[1].ac[2].enMax
    /\ scene[1].ac[3].enMax /\ scene[1].ac[3].max = 80

=============================================================================
